---- MODULE Spec2Model ----
(***************************************************************************)
(* Voting-event delegate lifecycle of the dashboard service                *)
(* (src/dashboard/app/services.py, src/dashboard/app/main.py).             *)
(*                                                                         *)
(* The relational store is the state: voting events, event-delegate rows,  *)
(* users and access codes.  One action is one request handler: the service *)
(* function it calls, the flush and the commit of its endpoint.  A handler *)
(* that raises rolls its session back, so a failed call changes nothing    *)
(* but the record of the last call.                                        *)
(***************************************************************************)
EXTENDS Integers, Sequences, FiniteSets, TLC

VARIABLES
    events,          \* voting_events: id -> row
    delegates,       \* event_delegates: set of rows
    users,           \* users: id -> row
    codes,           \* voting access codes: set of rows
    nextEventId,     \* next primary key of voting_events
    now,             \* datetime.utcnow(), seconds
    last,            \* the last completed call: its operation and outcome
    tx,              \* the open transactions of concurrently running requests
    organizations,   \* organizations: id -> row
    sessions,        \* session_tokens: the rows, and the number of uuids drawn
    returned,        \* the value the last completed call returned, if the model keeps it
    request,         \* the admin request in progress: its position and its session
    invitations      \* organization_invitations: the rows and the numbers drawn

vars == <<events, delegates, users, codes, nextEventId, now, last, tx,
          organizations, sessions, returned, request, invitations>>

----------------------------------------------------------------------------
(* Bounds of the model. *)

MaxEvents == 2
NumUsers == 2
MaxTime == 2

(* Program constants. *)

DELEGATE_TIMEZONE == 3600
ACCESS_CODE_LENGTH == 8
VOTING_AUTH_TTL_SECONDS == 60

Organizations == {1, 2}
EventIds == 1..MaxEvents
UserIds == 1..NumUsers
Transactions == {1, 2}

IdleTx == [pc |-> "idle"]

(* The users the store starts with: user 1 is the administrator and user 2 *)
(* a member, both approved and of organization 1; any further user is an   *)
(* approved member of organization 2.                                      *)
InitialUser(u) ==
    [organization_id |-> IF u <= 2 THEN 1 ELSE 2,
     is_admin |-> (u = 1),
     is_email_verified |-> TRUE,
     admin_decision |-> "approved",
     is_voting_delegate |-> FALSE,
     is_organization_contact |-> FALSE]

----------------------------------------------------------------------------
(* Datetimes: a wall-clock reading in seconds, with a UTC offset when the   *)
(* value is timezone-aware.  NoDatetime is the NULL of a nullable column.  *)
(* An absent row id (Python's None) is written 0.                          *)

Naive(w) == [null |-> FALSE, wall |-> w, aware |-> FALSE, off |-> 0]

Aware(w, o) == [null |-> FALSE, wall |-> w, aware |-> TRUE, off |-> o]

NoDatetime == [null |-> TRUE, wall |-> 0, aware |-> FALSE, off |-> 0]

_normalize_datetime(value) ==
    IF ~value.aware THEN value ELSE Naive(value.wall - value.off)

(* delegate_lock_state: a naive deadline is read as a wall clock of        *)
(* DELEGATE_TIMEZONE, an aware one as its instant; current_time is         *)
(* utcnow().                                                               *)
(* (event.delegate_lock_override or "").strip().lower() or None, with ""   *)
(* for None: the stored texts and one written with capitals and blanks.    *)
lock_override(value) ==
    CASE value = " Locked " -> "locked"
      [] value = "UNLOCKED" -> "unlocked"
      [] OTHER -> value

(* A comparison that reads a naive deadline as a wall clock of UTC. *)
deadline_passed_utc(event, current_time) ==
    LET deadline == event.delegate_deadline IN
    IF deadline.null THEN FALSE
    ELSE deadline.wall - (IF deadline.aware THEN deadline.off ELSE 0) < current_time

deadline_passed(event, current_time) ==
    LET deadline == event.delegate_deadline IN
    IF deadline.null THEN FALSE
    ELSE IF ~deadline.aware
         THEN deadline.wall - DELEGATE_TIMEZONE < current_time
         ELSE deadline.wall - deadline.off < current_time

delegate_lock_state(event, current_time) ==
    IF lock_override(event.delegate_lock_override) = "locked"
    THEN [locked |-> TRUE, mode |-> "locked", reason |-> "manual_locked"]
    ELSE IF lock_override(event.delegate_lock_override) = "unlocked"
    THEN [locked |-> FALSE, mode |-> "unlocked",
          reason |-> IF deadline_passed(event, current_time)
                     THEN "manual_unlocked_after_deadline"
                     ELSE "manual_unlocked"]
    ELSE IF event.delegate_deadline.null
    THEN [locked |-> FALSE, mode |-> "auto", reason |-> "no_deadline"]
    ELSE IF deadline_passed(event, current_time)
    THEN [locked |-> TRUE, mode |-> "auto", reason |-> "deadline_passed"]
    ELSE [locked |-> FALSE, mode |-> "auto", reason |-> "deadline_pending"]

----------------------------------------------------------------------------
(* Queries. *)

ActiveEvents(evs) == {e \in DOMAIN evs : evs[e].is_active}

EventDelegates(dels, e) == {d \in dels : d.event_id = e}

DelegateUserIds(dels, e) == {d.user_id : d \in EventDelegates(dels, e)}

(* A synchronisation that only ever raises flags: it marks the delegates   *)
(* of the active event and leaves every other flag as it was.              *)
synchronize_incremental(us, loaded, active_event) ==
    [u \in DOMAIN us |->
        IF us[u].is_admin THEN us[u]
        ELSE [us[u] EXCEPT !.is_voting_delegate =
                 @ \/ (active_event # 0 /\ u \in DelegateUserIds(loaded, active_event))]]

(* synchronize_delegate_flags: every non-admin user's flag becomes         *)
(* "has a row among the delegates loaded for the active event".            *)
synchronize_delegate_flags(us, loaded, active_event) ==
    [u \in DOMAIN us |->
        IF us[u].is_admin THEN us[u]
        ELSE [us[u] EXCEPT !.is_voting_delegate =
                 (active_event # 0 /\ u \in DelegateUserIds(loaded, active_event))]]

(* An activation that forgets to deactivate the other events. *)
set_active_keep_others(evs, x) ==
    [e \in DOMAIN evs |-> IF e = x THEN [evs[e] EXCEPT !.is_active = TRUE] ELSE evs[e]]

(* An activation that leaves is_voting_enabled of the other events alone. *)
set_active_keep_enabled(evs, x) ==
    [e \in DOMAIN evs |-> [evs[e] EXCEPT !.is_active = (e = x)]]

(* An activation that toggles the target instead of setting it. *)
set_active_toggle(evs, x) ==
    [e \in DOMAIN evs |->
        [evs[e] EXCEPT !.is_active = (e = x /\ ~@),
                       !.is_voting_enabled = IF e # x THEN FALSE ELSE @]]

(* set_active_voting_event, the loop over all events. *)
set_active_voting_event(evs, x) ==
    [e \in DOMAIN evs |->
        [evs[e] EXCEPT !.is_active = (e = x),
                       !.is_voting_enabled = IF e # x THEN FALSE ELSE @]]

Extend(f, k, v) == [i \in DOMAIN f \cup {k} |-> IF i = k THEN v ELSE f[i]]

Remove(f, k) == [i \in DOMAIN f \ {k} |-> f[i]]

(* What a call leaves as returned when the model keeps no value for it. *)
NoValue == [kind |-> "none"]

IdleRequest == [pc |-> "idle"]
NoSessions == [rows |-> {}, uuid |-> 0]
NoInvitations == [rows |-> {}, next_id |-> 1, uuid |-> 0]

DoneReturning(op, result, value) ==
    /\ last' = [op |-> op, result |-> result]
    /\ returned' = value

Done(op, result) == DoneReturning(op, result, NoValue)

(* The tables and the request state the event lifecycle starts from: no    *)
(* organization has paid its fee, nobody is logged in, no request runs.    *)
InitHandoff ==
    /\ organizations = [o \in Organizations |-> [fee_paid |-> FALSE]]
    /\ sessions = NoSessions
    /\ returned = NoValue
    /\ request = IdleRequest
    /\ invitations = NoInvitations

----------------------------------------------------------------------------
Init ==
    /\ events = <<>>
    /\ delegates = {}
    /\ users = [u \in UserIds |-> InitialUser(u)]
    /\ codes = {}
    /\ nextEventId = 1
    /\ now = 0
    /\ last = [op |-> "init", result |-> "ok"]
    /\ tx = [t \in Transactions |-> IdleTx]
    /\ InitHandoff

Tick ==
    /\ now < MaxTime * 3600
    /\ now' = now + 3600
    /\ UNCHANGED <<events, delegates, users, codes, nextEventId, last, tx, organizations, sessions, returned, request, invitations>>

Failed(op, result) ==
    /\ Done(op, result)
    /\ UNCHANGED <<events, delegates, users, codes, nextEventId, now, tx, organizations, sessions, request, invitations>>

----------------------------------------------------------------------------
(* Event lifecycle. *)

(* The checks of create_voting_event and update_voting_event. *)
event_fields_valid(title_len, event_date, delegate_deadline, delegate_limit) ==
    /\ title_len >= 3
    /\ ~(_normalize_datetime(delegate_deadline).wall > _normalize_datetime(event_date).wall)
    /\ delegate_limit >= 1

(* session.refresh(event, ["delegates"]) under autoflush=False: the rows   *)
(* the store holds, without the session's pending inserts and deletes.     *)
refresh_delegates(stored, pending) == stored

(* create_voting_event after its checks: the events table it leaves. *)
(* A creation that activates the event only on request. *)
create_voting_event_on_request(evs, id, delegate_deadline, delegate_limit, activate) ==
    LET event == [is_active |-> FALSE,
                  is_voting_enabled |-> FALSE,
                  delegate_limit |-> delegate_limit,
                  delegate_deadline |-> _normalize_datetime(delegate_deadline),
                  delegate_lock_override |-> ""]
        added == Extend(evs, id, event)
    IN  IF activate
        THEN [set_active_voting_event(added, id) EXCEPT ![id].is_voting_enabled = TRUE]
        ELSE added

(* A creation that enables voting on every event it activates. *)
create_voting_event_enabling(evs, id, delegate_deadline, delegate_limit, activate) ==
    LET event == [is_active |-> FALSE,
                  is_voting_enabled |-> FALSE,
                  delegate_limit |-> delegate_limit,
                  delegate_deadline |-> _normalize_datetime(delegate_deadline),
                  delegate_lock_override |-> ""]
        added == Extend(evs, id, event)
    IN  IF activate \/ ActiveEvents(added) = {}
        THEN [set_active_voting_event(added, id) EXCEPT ![id].is_voting_enabled = TRUE]
        ELSE added

create_voting_event(evs, id, delegate_deadline, delegate_limit, activate) ==
    LET event == [is_active |-> FALSE,
                  is_voting_enabled |-> FALSE,
                  delegate_limit |-> delegate_limit,
                  delegate_deadline |-> _normalize_datetime(delegate_deadline),
                  delegate_lock_override |-> ""]
        added == Extend(evs, id, event)
        has_active == ActiveEvents(added) # {}
    IN  IF activate \/ ~has_active
        THEN LET activated == set_active_voting_event(added, id)
             IN  IF activate
                 THEN [activated EXCEPT ![id].is_voting_enabled = TRUE]
                 ELSE activated
        ELSE added

CreateEvent(title_len, event_date, delegate_deadline, delegate_limit, activate) ==
    /\ nextEventId <= MaxEvents
    /\ IF ~event_fields_valid(title_len, event_date, delegate_deadline, delegate_limit)
       THEN Failed("createEvent", "rejected")
       ELSE /\ events' = create_voting_event(events, nextEventId, delegate_deadline,
                                             delegate_limit, activate)
            /\ users' = IF events'[nextEventId].is_active
                        THEN synchronize_delegate_flags(
                                 users, refresh_delegates(delegates, delegates), nextEventId)
                        ELSE users
            /\ nextEventId' = nextEventId + 1
            /\ Done("createEvent", "ok")
            /\ UNCHANGED <<delegates, codes, now, tx, organizations, sessions, request, invitations>>

update_voting_event(event, delegate_deadline, delegate_limit) ==
    [event EXCEPT !.delegate_deadline = _normalize_datetime(delegate_deadline),
                  !.delegate_limit = delegate_limit]

UpdateEvent(x, title_len, event_date, delegate_deadline, delegate_limit) ==
    IF x \notin DOMAIN events
    THEN Failed("updateEvent", "not_found")
    ELSE IF ~event_fields_valid(title_len, event_date, delegate_deadline, delegate_limit)
    THEN Failed("updateEvent", "rejected")
    ELSE /\ events' = [events EXCEPT
                          ![x] = update_voting_event(@, delegate_deadline, delegate_limit)]
         /\ Done("updateEvent", "ok")
         /\ UNCHANGED <<delegates, users, codes, nextEventId, now, tx, organizations, sessions, request, invitations>>

ActivateEvent(x) ==
    IF x \notin DOMAIN events
    THEN Failed("activateEvent", "not_found")
    ELSE /\ events' = set_active_voting_event(events, x)
         /\ users' = synchronize_delegate_flags(
                         users, refresh_delegates(delegates, delegates), x)
         /\ Done("activateEvent", "ok")
         /\ UNCHANGED <<delegates, codes, nextEventId, now, tx, organizations, sessions, request, invitations>>

(* An accessibility check that lets any event be enabled. *)
set_accessibility_unchecked(event, is_voting_enabled) == "ok"

(* An accessibility check that refuses every change of an event that is   *)
(* not active.                                                             *)
set_accessibility_active_only(event, is_voting_enabled) == IF ~event.is_active THEN "rejected" ELSE "ok"

(* set_voting_event_accessibility: "ok" or the reason of the refusal. *)
set_voting_event_accessibility(event, is_voting_enabled) ==
    IF is_voting_enabled /\ ~event.is_active THEN "rejected" ELSE "ok"

SetVotingEnabled(x, is_voting_enabled) ==
    IF x \notin DOMAIN events
    THEN Failed("setVotingEnabled", "not_found")
    ELSE IF set_voting_event_accessibility(events[x], is_voting_enabled) # "ok"
    THEN Failed("setVotingEnabled", "rejected")
    ELSE /\ events' = [events EXCEPT ![x].is_voting_enabled = is_voting_enabled]
         /\ Done("setVotingEnabled", "ok")
         /\ UNCHANGED <<delegates, users, codes, nextEventId, now, tx, organizations, sessions, request, invitations>>

(* set_delegate_lock_override: the event row it leaves; "auto" stores None. *)
set_delegate_lock_override(event, mode) ==
    [event EXCEPT !.delegate_lock_override = IF mode = "auto" THEN "" ELSE mode]

SetDelegateLockOverride(x, mode) ==
    IF x \notin DOMAIN events
    THEN Failed("setDelegateLockOverride", "not_found")
    ELSE /\ events' = [events EXCEPT ![x] = set_delegate_lock_override(@, mode)]
         /\ Done("setDelegateLockOverride", "ok")
         /\ UNCHANGED <<delegates, users, codes, nextEventId, now, tx, organizations, sessions, request, invitations>>

(* A call of delegate_lock_state on a stored event: its answer is the      *)
(* outcome of the call.                                                    *)
DelegateLockState(x, current_time) ==
    /\ x \in DOMAIN events
    /\ Done("delegateLockState", delegate_lock_state(events[x], current_time).reason)
    /\ UNCHANGED <<events, delegates, users, codes, nextEventId, now, tx, organizations, sessions, request, invitations>>

(* The access codes that session.delete(event) leaves: the event owns its  *)
(* codes, they go with it.                                                 *)
access_codes_cascade(cs, x) == {c \in cs : c.event_id # x}

(* A deletion that does not look at is_active. *)
delete_voting_event_unchecked(event) == "ok"

(* delete_voting_event: "ok" or the reason of the refusal. *)
delete_voting_event(event) == IF event.is_active THEN "rejected" ELSE "ok"

DeleteEvent(x) ==
    IF x \notin DOMAIN events
    THEN Failed("deleteEvent", "not_found")
    ELSE IF delete_voting_event(events[x]) # "ok"
    THEN Failed("deleteEvent", "rejected")
    ELSE /\ events' = Remove(events, x)
         /\ delegates' = delegates \ EventDelegates(delegates, x)
         /\ codes' = access_codes_cascade(codes, x)
         /\ Done("deleteEvent", "ok")
         /\ UNCHANGED <<users, nextEventId, now, tx, organizations, sessions, request, invitations>>

(* reset_voting_events: bulk deletes of both tables, then the flag of      *)
(* every user that had it.                                                 *)
(* The number reset_voting_events returns. *)
RemovedCount(count) == [kind |-> "count", count |-> count]

(* The users reset_voting_events leaves: without events it returns before  *)
(* it touches a flag.                                                      *)
reset_users(evs, us) ==
    IF DOMAIN evs = {}
    THEN us
    ELSE [u \in DOMAIN us |-> [us[u] EXCEPT !.is_voting_delegate = FALSE]]

ResetAllEvents ==
    IF DOMAIN events = {}
    THEN /\ DoneReturning("resetAllEvents", "ok", RemovedCount(0))
         /\ UNCHANGED <<events, delegates, users, codes, nextEventId, now, tx,
                        organizations, sessions, request, invitations>>
    ELSE /\ events' = <<>>
         /\ delegates' = {}
         /\ users' = reset_users(events, users)
         /\ DoneReturning("resetAllEvents", "ok", RemovedCount(Cardinality(DOMAIN events)))
         /\ UNCHANGED <<codes, nextEventId, now, tx, organizations, sessions, request, invitations>>

----------------------------------------------------------------------------
(* Delegate roster. *)

Range(seq) == {seq[i] : i \in DOMAIN seq}

(* The order-preserving, first-seen deduplication of user_ids. *)
RECURSIVE normalized_ids(_)
normalized_ids(user_ids) ==
    IF user_ids = <<>> THEN <<>>
    ELSE LET init == normalized_ids(SubSeq(user_ids, 1, Len(user_ids) - 1))
             x == user_ids[Len(user_ids)]
         IN  IF x \in Range(init) THEN init ELSE Append(init, x)

(* _ensure_user_can_delegate and the membership check, for one candidate. *)
candidate_check(us, user_id, organization_id) ==
    IF user_id \notin DOMAIN us THEN "not_found"
    ELSE IF us[user_id].organization_id = 0 THEN "rejected"
    ELSE IF ~us[user_id].is_email_verified \/ us[user_id].admin_decision # "approved"
         THEN "rejected"
    ELSE IF us[user_id].organization_id # organization_id THEN "rejected"
    ELSE "ok"

(* A loop that examines the first candidate only. *)
candidates_check_first(us, ids, organization_id) ==
    IF ids = <<>> THEN "ok"
    ELSE candidate_check(us, Head(ids), organization_id)

(* The first failure of the loop over the candidates, or "ok". *)
RECURSIVE candidates_check(_, _, _)
candidates_check(us, ids, organization_id) ==
    IF ids = <<>> THEN "ok"
    ELSE IF candidate_check(us, Head(ids), organization_id) # "ok"
         THEN candidate_check(us, Head(ids), organization_id)
         ELSE candidates_check(us, Tail(ids), organization_id)

(* The checks without the one of the lock. *)
set_event_delegates_check_unlocked(evs, us, event_id, organization_id, user_ids, current_time) ==
    IF event_id \notin DOMAIN evs THEN "not_found"
    ELSE IF organization_id \notin Organizations THEN "not_found"
    ELSE IF Len(normalized_ids(user_ids)) > evs[event_id].delegate_limit THEN "limit"
    ELSE candidates_check(us, normalized_ids(user_ids), organization_id)

(* The checks of set_event_delegates_for_organization, in its order. *)
set_event_delegates_check(evs, us, event_id, organization_id, user_ids, current_time) ==
    IF event_id \notin DOMAIN evs THEN "not_found"
    ELSE IF delegate_lock_state(evs[event_id], current_time).locked THEN "locked"
    ELSE IF organization_id \notin Organizations THEN "not_found"
    ELSE IF Len(normalized_ids(user_ids)) > evs[event_id].delegate_limit THEN "limit"
    ELSE candidates_check(us, normalized_ids(user_ids), organization_id)

existing_rows(dels, event_id, organization_id) ==
    {d \in dels : d.event_id = event_id /\ d.organization_id = organization_id}

(* The users of the list that get a new row, in list order. *)
inserted_ids(dels, event_id, organization_id, ids) ==
    LET have == {d.user_id : d \in existing_rows(dels, event_id, organization_id)}
        fresh(u) == u \notin have
    IN  SelectSeq(ids, fresh)

(* The list `updated` that set_event_delegates_for_organization returns:   *)
(* for each id of the deduplicated list, in its order, the row the         *)
(* organization already holds for the user, or a new row created at        *)
(* current_time.                                                           *)
set_event_delegates_updated(dels, event_id, organization_id, ids, current_time) ==
    LET existing == existing_rows(dels, event_id, organization_id)
    IN  [i \in DOMAIN ids |->
            IF \E d \in existing : d.user_id = ids[i]
            THEN CHOOSE d \in existing : d.user_id = ids[i]
            ELSE [event_id |-> event_id,
                  organization_id |-> organization_id,
                  user_id |-> ids[i],
                  created_at |-> current_time]]

(* A replacement that drops every row of the organization and writes new   *)
(* ones for the whole list.                                                *)
set_event_delegates_rows_recreate(dels, event_id, organization_id, ids, current_time) ==
    (dels \ existing_rows(dels, event_id, organization_id))
        \cup {[event_id |-> event_id,
               organization_id |-> organization_id,
               user_id |-> ids[i],
               created_at |-> current_time] : i \in DOMAIN ids}

(* The diff of set_event_delegates_for_organization as the flush writes    *)
(* it: rows no longer selected go, rows still selected stay, the new users *)
(* get rows created at current_time.                                       *)
set_event_delegates_rows(dels, event_id, organization_id, ids, current_time) ==
    LET deleted == {d \in existing_rows(dels, event_id, organization_id) :
                        d.user_id \notin Range(ids)}
        new == inserted_ids(dels, event_id, organization_id, ids)
        added == {d \in Range(set_event_delegates_updated(
                                  dels, event_id, organization_id, ids, current_time)) :
                      d.user_id \in Range(new)}
    IN  (dels \ deleted) \cup added

(* A replacement that writes the diff whatever organization the           *)
(* candidates belong to, into a table without the constraint uq_event_user. *)
SetEventDelegatesUnconstrained(event_id, organization_id, user_ids) ==
    LET ids == normalized_ids(user_ids)
        rows == set_event_delegates_rows(delegates, event_id, organization_id, ids, now)
    IN  IF event_id \notin DOMAIN events \/ ~(Range(ids) \subseteq DOMAIN users)
        THEN Failed("setEventDelegates", "not_found")
        ELSE /\ delegates' = rows
             /\ Done("setEventDelegates", "ok")
             /\ UNCHANGED <<events, users, codes, nextEventId, now, tx, organizations, sessions, request, invitations>>

(* uq_event_user: whether the rows hold one row at most per (event, user). *)
uq_event_user(dels) ==
    \A d1, d2 \in dels :
        (d1.event_id = d2.event_id /\ d1.user_id = d2.user_id) => d1 = d2

SetEventDelegates(event_id, organization_id, user_ids) ==
    LET check == set_event_delegates_check(events, users, event_id, organization_id,
                                           user_ids, now)
        ids == normalized_ids(user_ids)
        rows == set_event_delegates_rows(delegates, event_id, organization_id, ids, now)
    IN  IF check # "ok"
        THEN Failed("setEventDelegates", check)
        ELSE IF ~uq_event_user(rows)
        THEN Failed("setEventDelegates", "integrity_error")
        ELSE /\ delegates' = rows
             /\ users' = IF events[event_id].is_active
                         THEN synchronize_delegate_flags(
                                  users, refresh_delegates(delegates, rows), event_id)
                         ELSE users
             /\ Done("setEventDelegates", "ok")
             /\ UNCHANGED <<events, codes, nextEventId, now, tx, organizations, sessions, request, invitations>>

(* remove_member_from_organization: "ok" or the reason of the refusal. *)
remove_member_check(us, organization_id, member_id) ==
    IF organization_id \notin Organizations THEN "not_found"
    ELSE IF member_id \notin DOMAIN us THEN "not_found"
    ELSE IF us[member_id].organization_id # organization_id THEN "not_found"
    ELSE IF us[member_id].is_admin THEN "rejected"
    ELSE IF us[member_id].is_organization_contact THEN "rejected"
    ELSE "ok"

(* A removal that deletes the rows of the member on the active event only. *)
remove_member_delegates_active(evs, dels, member_id) == {d \in dels : ~(d.user_id = member_id /\ d.event_id \in ActiveEvents(evs))}

(* A removal that also clears the roster of the active event. *)
remove_member_delegates_roster(evs, dels, member_id) == {d \in dels : d.user_id # member_id /\ d.event_id \notin ActiveEvents(evs)}

(* delete(EventDelegate).where(EventDelegate.user_id == member.id) *)
remove_member_delegates(evs, dels, member_id) == {d \in dels : d.user_id # member_id}

RemoveMember(organization_id, member_id) ==
    LET check == remove_member_check(users, organization_id, member_id)
    IN  IF check # "ok"
        THEN Failed("removeMember", check)
        ELSE /\ delegates' = remove_member_delegates(events, delegates, member_id)
             /\ users' = [users EXCEPT ![member_id].organization_id = 0,
                                       ![member_id].is_voting_delegate = FALSE,
                                       ![member_id].is_organization_contact = FALSE]
             /\ Done("removeMember", "ok")
             /\ UNCHANGED <<events, codes, nextEventId, now, tx, organizations, sessions, request, invitations>>

(* delete_user_account: "ok" or the reason of the refusal. *)
delete_user_check(us, user_id) ==
    IF user_id \notin DOMAIN us THEN "not_found"
    ELSE IF us[user_id].is_admin THEN "rejected"
    ELSE "ok"

(* A release that returns the codes of the user to the unused ones. *)
release_access_codes_unused(cs, user_id) == {IF c.used_by_user_id = user_id THEN [c EXCEPT !.used_by_user_id = 0, !.used_at = NoDatetime] ELSE c : c \in cs}

(* update(VotingAccessCode).where(used_by_user_id == user.id)              *)
(*     .values(used_by_user_id=None)                                       *)
release_access_codes(cs, user_id) ==
    {IF c.used_by_user_id = user_id
     THEN [c EXCEPT !.used_by_user_id = 0] ELSE c : c \in cs}

DeleteUser(user_id) ==
    LET check == delete_user_check(users, user_id)
    IN  IF check # "ok"
        THEN Failed("deleteUser", check)
        ELSE /\ delegates' = {d \in delegates : d.user_id # user_id}
             /\ codes' = release_access_codes(codes, user_id)
             /\ users' = Remove(users, user_id)
             /\ Done("deleteUser", "ok")
             /\ UNCHANGED <<events, nextEventId, now, tx, organizations, sessions, request, invitations>>

(* set_voting_delegate: the user row it leaves. *)
set_voting_delegate(user, is_delegate) ==
    [user EXCEPT !.is_voting_delegate = is_delegate]

SetVotingDelegate(user_id, is_delegate) ==
    IF user_id \notin DOMAIN users
    THEN Failed("setVotingDelegate", "not_found")
    ELSE IF users[user_id].is_admin
    THEN Failed("setVotingDelegate", "rejected")
    ELSE /\ users' = [users EXCEPT ![user_id] = set_voting_delegate(@, is_delegate)]
         /\ Done("setVotingDelegate", "ok")
         /\ UNCHANGED <<events, delegates, codes, nextEventId, now, tx, organizations, sessions, request, invitations>>

----------------------------------------------------------------------------
(* Access codes.  A string is a sequence of characters; the characters of   *)
(* the model are "A", "B", "S" and "2" of ACCESS_CODE_ALPHABET, the         *)
(* lower-case "a" and "b", the sharp s whose upper case is two letters, and *)
(* the separators "-" and " ".                                              *)

(* str.upper() of one character. *)
upper(ch) ==
    CASE ch = "a" -> <<"A">>
      [] ch = "b" -> <<"B">>
      [] ch = "sharp_s" -> <<"S", "S">>
      [] OTHER -> <<ch>>

RECURSIVE upper_str(_)
upper_str(value) ==
    IF value = <<>> THEN <<>> ELSE upper(Head(value)) \o upper_str(Tail(value))

isalnum(ch) == ch \in {"A", "B", "S", "2", "a", "b", "sharp_s"}

(* "-".join of the groups of 4. *)
RECURSIVE grouped(_)
grouped(cleaned) ==
    IF Len(cleaned) <= 4 THEN cleaned
    ELSE SubSeq(cleaned, 1, 4) \o <<"-">> \o grouped(SubSeq(cleaned, 5, Len(cleaned)))

(* _canonicalize_access_code: the canonical text, or the error it raises. *)
_canonicalize_access_code(value) ==
    LET cleaned == SelectSeq(upper_str(value), isalnum)
    IN  IF cleaned = <<>> THEN [error |-> FALSE, code |-> <<>>]
        ELSE IF Len(cleaned) # ACCESS_CODE_LENGTH THEN [error |-> TRUE, code |-> <<>>]
        ELSE [error |-> FALSE, code |-> grouped(cleaned)]

ACCESS_CODE_ALPHABET ==
    {"2", "3", "4", "5", "6", "7", "8", "9",
     "A", "B", "C", "D", "E", "F", "G", "H", "J", "K", "L", "M",
     "N", "P", "Q", "R", "S", "T", "U", "V", "W", "X", "Y", "Z"}

(* The texts secrets.choice can produce, cut down to three. *)
RawCode(i) == [k \in 1..ACCESS_CODE_LENGTH |-> IF k <= i THEN "B" ELSE "A"]

CodePool == {grouped(RawCode(i)) : i \in 0..2}

(* A generator that returns its first draw without looking at existing. *)
_generate_access_code_once(existing) == CodePool

(* _generate_access_code: the texts it can return. *)
_generate_access_code(existing) == CodePool \ existing

EventCodes(cs, event_id) == {c \in cs : c.event_id = event_id}

(* The checks without the one of the delegate count. *)
generate_check_uncounted(evs, dels, event_id) ==
    IF event_id \notin DOMAIN evs THEN "not_found" ELSE "ok"

(* generate_voting_access_codes: "ok" or the kind of its failure. *)
generate_check(evs, dels, event_id) ==
    IF event_id \notin DOMAIN evs THEN "not_found"
    ELSE IF Cardinality(EventDelegates(dels, event_id)) = 0 THEN "unavailable"
    ELSE "ok"

(* A generation that tops the pool up to one unused code per delegate. *)
GenerateAccessCodesCountingUnused(event_id, regenerate) ==
    LET check == generate_check(events, delegates, event_id)
        kept == IF regenerate THEN codes \ EventCodes(codes, event_id) ELSE codes
        existing_codes == {c.code : c \in EventCodes(kept, event_id)}
        unused == {c \in EventCodes(kept, event_id) : c.used_at = NoDatetime}
        delegate_total == Cardinality(EventDelegates(delegates, event_id))
        missing == IF delegate_total > Cardinality(unused)
                   THEN delegate_total - Cardinality(unused) ELSE 0
    IN  IF check # "ok"
        THEN Failed("generateAccessCodes", check)
        ELSE \E new \in SUBSET _generate_access_code(existing_codes) :
                /\ Cardinality(new) = missing
                /\ codes' = kept \cup {[event_id |-> event_id,
                                        code |-> c,
                                        used_at |-> NoDatetime,
                                        used_by_user_id |-> 0] : c \in new}
                /\ Done("generateAccessCodes", "ok")
                /\ UNCHANGED <<events, delegates, users, nextEventId, now, tx, organizations, sessions, request, invitations>>

GenerateAccessCodes(event_id, regenerate) ==
    LET check == generate_check(events, delegates, event_id)
        kept == IF regenerate THEN codes \ EventCodes(codes, event_id) ELSE codes
        existing_codes == {c.code : c \in EventCodes(kept, event_id)}
        delegate_total == Cardinality(EventDelegates(delegates, event_id))
        missing == IF delegate_total > Cardinality(existing_codes)
                   THEN delegate_total - Cardinality(existing_codes) ELSE 0
    IN  IF check # "ok"
        THEN Failed("generateAccessCodes", check)
        ELSE \E new \in SUBSET _generate_access_code(existing_codes) :
                /\ Cardinality(new) = missing
                /\ codes' = kept \cup {[event_id |-> event_id,
                                        code |-> c,
                                        used_at |-> NoDatetime,
                                        used_by_user_id |-> 0] : c \in new}
                /\ Done("generateAccessCodes", "ok")
                /\ UNCHANGED <<events, delegates, users, nextEventId, now, tx, organizations, sessions, request, invitations>>

(* The rows the lookup of redeem_voting_access_code selects. *)
code_records(cs, event_id, canonical) ==
    {c \in cs : c.event_id = event_id /\ c.code = canonical}

(* A redemption that does not look at used_at. *)
redeem_unguarded(cs, event_id, code_value) ==
    LET canonical == _canonicalize_access_code(code_value)
    IN  IF code_value = <<>> THEN "required"
        ELSE IF canonical.error THEN "malformed"
        ELSE IF code_records(cs, event_id, canonical.code) = {} THEN "not_found"
        ELSE "ok"

(* redeem_voting_access_code: "ok" or the kind of its failure. *)
redeem_voting_access_code(cs, event_id, code_value) ==
    LET canonical == _canonicalize_access_code(code_value)
    IN  IF code_value = <<>> THEN "required"
        ELSE IF canonical.error THEN "malformed"
        ELSE IF code_records(cs, event_id, canonical.code) = {} THEN "not_found"
        ELSE IF \E c \in code_records(cs, event_id, canonical.code) : ~c.used_at.null
             THEN "already_used"
        ELSE "ok"

(* The stamp a successful redemption writes on the record. *)
redeemed(record, user_id, current_time) ==
    [record EXCEPT !.used_at = Naive(current_time), !.used_by_user_id = user_id]

RedeemAccessCode(event_id, code_value, user_id) ==
    LET result == redeem_voting_access_code(codes, event_id, code_value)
        canonical == _canonicalize_access_code(code_value).code
    IN  /\ user_id \in DOMAIN users
        /\ IF result # "ok"
           THEN Failed("redeemAccessCode", result)
           ELSE \E record \in code_records(codes, event_id, canonical) :
                   /\ codes' = (codes \ {record}) \cup {redeemed(record, user_id, now)}
                   /\ Done("redeemAccessCode", "ok")
                   /\ UNCHANGED <<events, delegates, users, nextEventId, now, tx, organizations, sessions, request, invitations>>

----------------------------------------------------------------------------
(* Requests that overlap.  Each request runs in a session of its own, in a  *)
(* transaction of its own: what it reads is what is committed when it      *)
(* reads, what it writes is seen by the others when it commits.  The       *)
(* session writes the columns it changed on the rows it loaded, by primary *)
(* key; a write waits for the commit of an earlier writer of the row and   *)
(* then goes ahead.                                                        *)

(* The column of a loaded row as the flush leaves it in the store: the     *)
(* value the session assigned if it differs from the value it loaded,      *)
(* the stored value if not.                                                *)
flushed(stored, loaded, assigned) == IF assigned # loaded THEN assigned ELSE stored

(* redeem_voting_access_code up to the lookup of the record. *)
TxRedeemLookup(t, event_id, code_value, user_id) ==
    LET canonical == _canonicalize_access_code(code_value)
        records == code_records(codes, event_id, canonical.code)
    IN  /\ tx[t].pc = "idle"
        /\ user_id \in DOMAIN users
        /\ code_value # <<>>
        /\ ~canonical.error
        /\ tx' = [tx EXCEPT ![t] =
                     [pc |-> "lookup", event_id |-> event_id, code |-> canonical.code,
                      user_id |-> user_id, found |-> records # {},
                      used |-> \E c \in records : ~c.used_at.null]]
        /\ UNCHANGED <<events, delegates, users, codes, nextEventId, now, last, organizations, sessions, returned, request, invitations>>

(* The two checks on the record the lookup returned. *)
TxRedeemCheck(t) ==
    /\ tx[t].pc = "lookup"
    /\ tx' = [tx EXCEPT ![t].pc = IF ~tx[t].found THEN "not_found"
                                  ELSE IF tx[t].used THEN "already_used"
                                  ELSE "checked"]
    /\ UNCHANGED <<events, delegates, users, codes, nextEventId, now, last, organizations, sessions, returned, request, invitations>>

(* The assignment of the stamps, the flush and the commit. *)
TxRedeemWrite(t) ==
    /\ tx[t].pc = "checked"
    /\ codes' = {IF c.event_id = tx[t].event_id /\ c.code = tx[t].code
                 THEN redeemed(c, tx[t].user_id, now) ELSE c : c \in codes}
    /\ tx' = [tx EXCEPT ![t].pc = "ok"]
    /\ Done("redeemAccessCode", "ok")
    /\ UNCHANGED <<events, delegates, users, nextEventId, now, organizations, sessions, request, invitations>>

(* The request returns its answer. *)
TxRedeemReturn(t) ==
    /\ tx[t].pc \in {"ok", "not_found", "already_used"}
    /\ tx' = [tx EXCEPT ![t] = IdleTx]
    /\ UNCHANGED <<events, delegates, users, codes, nextEventId, now, last, organizations, sessions, returned, request, invitations>>

(* set_active_voting_event and synchronize_delegate_flags in the session:  *)
(* the rows they load and the values they assign.                          *)
TxActivateRead(t, x) ==
    /\ tx[t].pc = "idle"
    /\ x \in DOMAIN events
    /\ tx' = [tx EXCEPT ![t] =
                 [pc |-> "activated", op |-> "activateEvent", inserted |-> {},
                  read_events |-> events,
                  new_events |-> set_active_voting_event(events, x),
                  read_users |-> users,
                  new_users |-> synchronize_delegate_flags(
                                    users, refresh_delegates(delegates, delegates), x)]]
    /\ UNCHANGED <<events, delegates, users, codes, nextEventId, now, last, organizations, sessions, returned, request, invitations>>

(* create_voting_event in the session: the row it inserts takes the next   *)
(* key, the other rows are the committed ones.                             *)
TxCreateInsert(t, delegate_deadline, delegate_limit, activate) ==
    LET created == create_voting_event(events, nextEventId, delegate_deadline,
                                       delegate_limit, activate)
    IN  /\ tx[t].pc = "idle"
        /\ nextEventId <= MaxEvents
        /\ nextEventId' = nextEventId + 1
        /\ tx' = [tx EXCEPT ![t] =
                     [pc |-> "activated", op |-> "createEvent", inserted |-> {nextEventId},
                      read_events |-> events,
                      new_events |-> created,
                      read_users |-> users,
                      new_users |-> IF created[nextEventId].is_active
                                    THEN synchronize_delegate_flags(
                                             users, refresh_delegates(delegates, delegates),
                                             nextEventId)
                                    ELSE users]]
        /\ UNCHANGED <<events, delegates, users, codes, now, last, organizations, sessions, returned, request, invitations>>

(* db.commit() of the endpoint: the inserted row, and the changed columns  *)
(* of the rows that were loaded.                                           *)
TxCommit(t) ==
    LET r == tx[t]
        loaded == DOMAIN r.read_events \cap DOMAIN events
    IN  /\ r.pc = "activated"
        /\ events' = [e \in DOMAIN events \cup r.inserted |->
                         IF e \in r.inserted THEN r.new_events[e]
                         ELSE IF e \in loaded
                         THEN [events[e] EXCEPT
                                  !.is_active = flushed(@, r.read_events[e].is_active,
                                                        r.new_events[e].is_active),
                                  !.is_voting_enabled =
                                      flushed(@, r.read_events[e].is_voting_enabled,
                                              r.new_events[e].is_voting_enabled)]
                         ELSE events[e]]
        /\ users' = [u \in DOMAIN users |->
                        IF u \in DOMAIN r.read_users
                        THEN [users[u] EXCEPT
                                 !.is_voting_delegate =
                                     flushed(@, r.read_users[u].is_voting_delegate,
                                             r.new_users[u].is_voting_delegate)]
                        ELSE users[u]]
        /\ tx' = [tx EXCEPT ![t] = IdleTx]
        /\ Done(r.op, "ok")
        /\ UNCHANGED <<delegates, codes, nextEventId, now, organizations, sessions, request, invitations>>

----------------------------------------------------------------------------
(* The inputs the requests are drawn from. *)

TitleLengths == {2, 3}
EventDates == {Naive(2 * 3600), Naive(4 * 3600)}
Deadlines == {Naive(3600), Naive(3 * 3600)}
DelegateLimits == {0, 1, 2}
UserIdInputs == 1..(NumUsers + 1)
UserIdLists(ids) == {<<>>} \cup {<<u>> : u \in ids} \cup {<<u, v>> : u \in ids, v \in ids}

EventRequest(titles, dates, deadlines, limits) ==
    \/ \E tl \in titles, d \in dates, dl \in deadlines, lim \in limits, act \in BOOLEAN :
          CreateEvent(tl, d, dl, lim, act)
    \/ \E x \in EventIds, tl \in titles, d \in dates, dl \in deadlines, lim \in limits :
          UpdateEvent(x, tl, d, dl, lim)
    \/ \E x \in EventIds : ActivateEvent(x)
    \/ \E x \in EventIds, en \in BOOLEAN : SetVotingEnabled(x, en)
    \/ \E x \in EventIds : DeleteEvent(x)
    \/ ResetAllEvents

RosterRequest ==
    \/ \E e \in EventIds, o \in Organizations, ids \in UserIdLists(UserIdInputs) :
          SetEventDelegates(e, o, ids)
    \/ \E o \in Organizations, m \in UserIds : RemoveMember(o, m)
    \/ \E u \in UserIds : DeleteUser(u)
    \/ \E u \in UserIds, f \in BOOLEAN : SetVotingDelegate(u, f)

(* The event lifecycle alone, with every input of the event requests. *)
NextEvents == EventRequest(TitleLengths, EventDates, Deadlines, DelegateLimits)

SpecEvents == Init /\ [][NextEvents]_vars

(* Events, rosters and delegate flags: the events are created with a       *)
(* deadline that is not reached and room for two delegates.                *)
Next ==
    \/ \E act \in BOOLEAN : CreateEvent(3, Naive(4 * 3600), Naive(3 * 3600), 2, act)
    \/ \E x \in EventIds : ActivateEvent(x)
    \/ ResetAllEvents
    \/ \E e \in EventIds, o \in Organizations, ids \in UserIdLists(UserIds) :
          SetEventDelegates(e, o, ids)
    \/ \E u \in UserIds, f \in BOOLEAN : SetVotingDelegate(u, f)

Spec == Init /\ [][Next]_vars

(* The same with the removal of members and the deletion of accounts. *)
NextFlags ==
    \/ Next
    \/ \E o \in Organizations, m \in UserIds : RemoveMember(o, m)
    \/ \E u \in UserIds : DeleteUser(u)

SpecFlags == Init /\ [][NextFlags]_vars

(* The texts presented for redemption: the codes as printed, a code typed  *)
(* in lower case without its hyphen, a short one, one of separators only,  *)
(* the empty one.                                                          *)
CodeInputs ==
    CodePool \cup {[k \in 1..ACCESS_CODE_LENGTH |-> "a"],
                   <<"A", "B", "2">>,
                   <<"-", " ">>,
                   <<>>}

(* The canonical form of each of them. *)
CanonicalInput == [raw \in CodeInputs |-> _canonicalize_access_code(raw)]

(* Access codes: the events and the roster of organization 1 on the first  *)
(* event are set up before time passes; codes are generated, and redeemed  *)
(* by the delegates, as it passes.                                         *)
NextCodes ==
    \/ now = 0 /\ CreateEvent(3, Naive(4 * 3600), Naive(3 * 3600), 2, FALSE)
    \/ now = 0 /\ \E ids \in {<<>>, <<2>>, <<1, 2>>} : SetEventDelegates(1, 1, ids)
    \/ \E e \in EventIds, regenerate \in BOOLEAN : GenerateAccessCodes(e, regenerate)
    \/ \E e \in EventIds, raw \in CodeInputs, u \in DelegateUserIds(delegates, 1) :
          RedeemAccessCode(e, raw, u)
    \/ Tick

SpecCodes == Init /\ [][NextCodes]_vars

(* Two delegates of the first event redeem its codes at once.  The events, *)
(* the roster and the codes are set up by requests that run alone.         *)
NextRedeemRace ==
    \/ CreateEvent(3, Naive(4 * 3600), Naive(3 * 3600), 2, FALSE)
    \/ \E ids \in {<<2>>, <<1, 2>>} : SetEventDelegates(1, 1, ids)
    \/ GenerateAccessCodes(1, FALSE)
    \/ \E t \in Transactions, raw \in CodePool, u \in DelegateUserIds(delegates, 1) :
          TxRedeemLookup(t, 1, raw, u)
    \/ \E t \in Transactions : TxRedeemCheck(t)
    \/ \E t \in Transactions : TxRedeemWrite(t)
    \/ \E t \in Transactions : TxRedeemReturn(t)

SpecRedeemRace == Init /\ [][NextRedeemRace]_vars

(* Two requests create or activate events at once. *)
NextActivationRace ==
    \/ \E ids \in {<<2>>, <<1, 2>>}, e \in EventIds : SetEventDelegates(e, 1, ids)
    \/ \E t \in Transactions, x \in EventIds : TxActivateRead(t, x)
    \/ \E t \in Transactions, act \in BOOLEAN : TxCreateInsert(t, Naive(3 * 3600), 2, act)
    \/ \E t \in Transactions : TxCommit(t)

SpecActivationRace == Init /\ [][NextActivationRace]_vars

(* delegate_lock_state alone: one stored event with any override and any   *)
(* deadline, also the NULL deadline of a row older than the column, looked *)
(* at a second before, at and a second after each hour.                    *)
LockOverrides == {"", "locked", "unlocked", " Locked ", "UNLOCKED"}

LockDeadlines ==
    {NoDatetime, Naive(2 * 3600), Naive(3 * 3600), Aware(2 * 3600, 3600),
     Aware(2 * 3600, 0), Aware(4 * 3600, 2 * 3600)}

LockStoredEvent(override, deadline) ==
    [is_active |-> TRUE,
     is_voting_enabled |-> FALSE,
     delegate_limit |-> 1,
     delegate_deadline |-> deadline,
     delegate_lock_override |-> override]

InitLockState ==
    /\ \E override \in LockOverrides, deadline \in LockDeadlines :
          events = <<LockStoredEvent(override, deadline)>>
    /\ delegates = {}
    /\ users = [u \in UserIds |-> InitialUser(u)]
    /\ codes = {}
    /\ nextEventId = 2
    /\ now = 0
    /\ last = [op |-> "init", result |-> "ok"]
    /\ tx = [t \in Transactions |-> IdleTx]
    /\ InitHandoff

NextLockState ==
    \/ \E d \in {-1, 0, 1} : DelegateLockState(1, now + d)
    \/ Tick

SpecLockState == InitLockState /\ [][NextLockState]_vars

(* The delegate lock: events are created and changed with a naive or an    *)
(* aware deadline, the override is set, the roster of organization 1 on    *)
(* the first event is replaced, as time passes.                            *)
LockInputDeadlines == {Naive(2 * 3600), Aware(3 * 3600, 3600)}

LockModes == {"auto", "locked", "unlocked"}

NextLock ==
    \/ \E dl \in LockInputDeadlines : CreateEvent(3, Naive(4 * 3600), dl, 2, FALSE)
    \/ \E x \in EventIds, dl \in LockInputDeadlines :
          UpdateEvent(x, 3, Naive(4 * 3600), dl, 2)
    \/ \E x \in EventIds, mode \in LockModes : SetDelegateLockOverride(x, mode)
    \/ \E ids \in {<<>>, <<2>>, <<1, 2>>} : SetEventDelegates(1, 1, ids)
    \/ Tick

SpecLock == Init /\ [][NextLock]_vars

----------------------------------------------------------------------------
(* Properties of the event lifecycle (SpecEvents). *)

Called(op) == last = [op |-> op, result |-> "ok"]

NonAdmins == {u \in DOMAIN users : ~users[u].is_admin}

HasRow(dels, e, u) == \E d \in dels : d.event_id = e /\ d.user_id = u

(* C1: after any sequence of completed event requests at most one          *)
(* VotingEvent has is_active = true.                                       *)
C1_AtMostOneActive == Cardinality(ActiveEvents(events)) <= 1

(* Two events exist and an activation has just moved the active flag.      *)
C1_Witness ==
    /\ Called("activateEvent")
    /\ Cardinality(DOMAIN events) >= 2
    /\ Cardinality(ActiveEvents(events)) = 1

(* C2: after any sequence of completed event requests every VotingEvent    *)
(* with is_voting_enabled = true is also active.                           *)
C2_EnabledImpliesActive ==
    \A e \in DOMAIN events : events[e].is_voting_enabled => events[e].is_active

(* Voting has just been enabled on the active event while an inactive      *)
(* event exists.                                                           *)
C2_Witness ==
    /\ Called("setVotingEnabled")
    /\ \E e \in DOMAIN events : events[e].is_voting_enabled /\ events[e].is_active
    /\ \E e \in DOMAIN events : ~events[e].is_active

(* What C6 requires of the events table after x became the active event. *)
OnlyActive(evs, x) ==
    /\ x \in DOMAIN evs
    /\ evs[x].is_active
    /\ \A e \in DOMAIN evs \ {x} : ~evs[e].is_active /\ ~evs[e].is_voting_enabled

(* C6: after activateEvent(x), or createEvent with activate = true         *)
(* creating x, x is active and every other event is inactive and has       *)
(* is_voting_enabled = false, whatever it had before.                      *)
C6_ActivationIsExclusive ==
    [][/\ \A x \in EventIds :
             (ActivateEvent(x) /\ last'.result = "ok") => OnlyActive(events', x)
       /\ \A tl \in TitleLengths, d \in EventDates, dl \in Deadlines,
             lim \in DelegateLimits :
             (CreateEvent(tl, d, dl, lim, TRUE) /\ last'.result = "ok")
                 => OnlyActive(events', nextEventId)]_vars

(* An activation has completed: its target is active with another event    *)
(* beside it.                                                              *)
C6_Witness ==
    /\ Called("activateEvent")
    /\ \E x \in DOMAIN events :
          /\ events[x].is_active
          /\ \E e \in DOMAIN events \ {x} : ~events[e].is_active

----------------------------------------------------------------------------
(* Properties of the delegate flags (Spec). *)

FlagsMatch(us, dels, x) ==
    \A u \in DOMAIN us :
        ~us[u].is_admin => (us[u].is_voting_delegate <=> HasRow(dels, x, u))

(* C7: immediately after activateEvent(x) every non-admin user's           *)
(* is_voting_delegate is true exactly if an EventDelegate row (x, u)       *)
(* exists; the flags of the delegates of the previously active event are   *)
(* cleared.                                                                *)
C7_ActivationSynchronizesFlags ==
    [][\A x \in EventIds :
          (ActivateEvent(x) /\ last'.result = "ok") => FlagsMatch(users', delegates', x)]_vars

(* An activation has completed and a non-admin user who is a delegate of   *)
(* another event only has no flag.                                         *)
C7_Witness ==
    /\ Called("activateEvent")
    /\ \E x \in DOMAIN events, e \in DOMAIN events, u \in NonAdmins :
          /\ events[x].is_active
          /\ e # x
          /\ HasRow(delegates, e, u)
          /\ ~HasRow(delegates, x, u)
          /\ ~users[u].is_voting_delegate

(* C8: after a successful setEventDelegatesForOrganization on the active   *)
(* event every non-admin user's is_voting_delegate is true exactly if the  *)
(* user has a row on that event in the roster the call leaves.             *)
C8_RosterReplacementSynchronizesFlags ==
    [][\A e \in EventIds, o \in Organizations, ids \in UserIdLists(UserIds) :
          (/\ SetEventDelegates(e, o, ids)
           /\ last'.result = "ok"
           /\ events[e].is_active) => FlagsMatch(users', delegates', e)]_vars

(* C9: between completed operations each non-admin user's                  *)
(* is_voting_delegate equals "has an EventDelegate row on the active       *)
(* event", and is false when no event is active.                           *)
C9_FlagsNeverDrift ==
    \A u \in NonAdmins :
        users[u].is_voting_delegate
            <=> \E x \in ActiveEvents(events) : HasRow(delegates, x, u)

(* C10: activateEvent(x) applied to the result of activateEvent(x) changes *)
(* no is_voting_delegate and no is_active or is_voting_enabled: the second *)
(* call in a row leaves what the first one left.                           *)
C10_ActivationIdempotent ==
    \A x \in DOMAIN events :
        LET events1 == set_active_voting_event(events, x)
            users1 == synchronize_delegate_flags(
                          users, refresh_delegates(delegates, delegates), x)
            events2 == set_active_voting_event(events1, x)
            users2 == synchronize_delegate_flags(
                          users1, refresh_delegates(delegates, delegates), x)
        IN  events2 = events1 /\ users2 = users1

(* An activation has completed on an event that has a non-admin delegate   *)
(* and voting enabled: the state a repeated activateEvent starts from.     *)
C10_Witness ==
    /\ Called("activateEvent")
    /\ \E x \in DOMAIN events, u \in NonAdmins :
          /\ events[x].is_active
          /\ events[x].is_voting_enabled
          /\ HasRow(delegates, x, u)
          /\ users[u].is_voting_delegate

----------------------------------------------------------------------------
(* Properties of the access codes (SpecCodes). *)

(* C4: for a code of the pool of event e, the first redeemAccessCode       *)
(* succeeds and stamps used_at and used_by_user; every later one of the    *)
(* same code on e fails as already used, never as not found, and leaves    *)
(* both stamps as they were.  A code is of the pool from its generation    *)
(* until a regeneration deletes it.                                        *)
C4_RedeemRoundTrip ==
    [][\A record \in codes, raw \in CodeInputs, u \in UserIds :
          (/\ last'.op = "redeemAccessCode"
           /\ ~CanonicalInput[raw].error
           /\ CanonicalInput[raw].code = record.code
           /\ RedeemAccessCode(record.event_id, raw, u)) =>
              IF record.used_at.null
              THEN /\ last'.result = "ok"
                   /\ codes' = (codes \ {record}) \cup
                         {[event_id |-> record.event_id,
                           code |-> record.code,
                           used_at |-> Naive(now),
                           used_by_user_id |-> u]}
              ELSE /\ last'.result = "already_used"
                   /\ codes' = codes]_vars

(* A second redemption has just been refused as already used, at a later   *)
(* time than the stamp the first one left.                                 *)
C4_Witness ==
    /\ last = [op |-> "redeemAccessCode", result |-> "already_used"]
    /\ \E c \in codes : ~c.used_at.null /\ c.used_at.wall < now /\ c.used_by_user_id # 0

----------------------------------------------------------------------------
(* Properties of overlapping requests (SpecRedeemRace, SpecActivationRace). *)

(* C3: of two redeemAccessCode calls for the same unused code of one event *)
(* that run at once in separate transactions exactly one succeeds: two     *)
(* requests never both hold a success for the same code.                   *)
C3_ConcurrentRedeemOneWinner ==
    \A t1, t2 \in Transactions :
        (/\ t1 # t2
         /\ tx[t1].pc = "ok"
         /\ tx[t2].pc = "ok")
            => (tx[t1].event_id # tx[t2].event_id \/ tx[t1].code # tx[t2].code)

(* C5: when two activations of different events run at once in separate    *)
(* transactions, no committed state holds two active events.               *)
C5_ConcurrentActivationsOneActive ==
    \A e1, e2 \in DOMAIN events :
        (events[e1].is_active /\ events[e2].is_active) => e1 = e2

----------------------------------------------------------------------------
(* Properties of the delegate lock (SpecLockState, SpecLock). *)

(* The instant a deadline denotes: a naive one is a wall clock of the      *)
(* configured local zone.                                                  *)
Instant(deadline) ==
    deadline.wall - (IF deadline.aware THEN deadline.off ELSE DELEGATE_TIMEZONE)

(* The six rows of the lock table. *)
LockTable(override, deadline, current_time) ==
    LET passed == ~deadline.null /\ Instant(deadline) < current_time
    IN  IF override \in {"locked", " Locked "}
        THEN [locked |-> TRUE, mode |-> "locked", reason |-> "manual_locked"]
        ELSE IF override \in {"unlocked", "UNLOCKED"}
        THEN IF passed
             THEN [locked |-> FALSE, mode |-> "unlocked",
                   reason |-> "manual_unlocked_after_deadline"]
             ELSE [locked |-> FALSE, mode |-> "unlocked", reason |-> "manual_unlocked"]
        ELSE IF deadline.null
        THEN [locked |-> FALSE, mode |-> "auto", reason |-> "no_deadline"]
        ELSE IF passed
        THEN [locked |-> TRUE, mode |-> "auto", reason |-> "deadline_passed"]
        ELSE [locked |-> FALSE, mode |-> "auto", reason |-> "deadline_pending"]

(* C11: delegateLockState(event, now) is the six-row table of (override,   *)
(* deadline, now), a second before, at and a second after every hour, and  *)
(* a call of it leaves the event as it was.                                *)
C11_LockStateMatchesTable ==
    /\ [](\A e \in DOMAIN events : \A d \in {-1, 0, 1} :
             delegate_lock_state(events[e], now + d)
                 = LockTable(events[e].delegate_lock_override,
                             events[e].delegate_deadline, now + d))
    /\ [][\A d \in {-1, 0, 1} :
             DelegateLockState(1, now + d) =>
                 /\ events' = events
                 /\ last'.result = LockTable(events[1].delegate_lock_override,
                                             events[1].delegate_deadline, now + d).reason]_vars

(* The lock state of an event without override has just been asked a       *)
(* second after the instant of its naive deadline, and was deadline_passed.*)
C11_Witness ==
    /\ last = [op |-> "delegateLockState", result |-> "deadline_passed"]
    /\ \E e \in DOMAIN events :
          /\ events[e].delegate_lock_override = ""
          /\ ~events[e].delegate_deadline.null
          /\ ~events[e].delegate_deadline.aware
          /\ Instant(events[e].delegate_deadline) = now

(* What C12 requires of a stored event whose deadline was given as the     *)
(* instant T.                                                              *)
LocksAt(event, T) ==
    /\ delegate_lock_state(event, T - 1).reason = "deadline_pending"
    /\ delegate_lock_state(event, T + 1).reason = "deadline_passed"

(* C12: an event created or changed with a timezone-aware deadline that    *)
(* denotes the instant T, and without override, is unlocked                *)
(* (deadline_pending) at T - 1s and locked (deadline_passed) at T + 1s.    *)
C12_AwareDeadlineLocksAtItsInstant ==
    [][\A dl \in LockInputDeadlines :
          dl.aware =>
              /\ (CreateEvent(3, Naive(4 * 3600), dl, 2, FALSE) /\ last'.result = "ok")
                     => LocksAt(events'[nextEventId], dl.wall - dl.off)
              /\ \A x \in DOMAIN events :
                     (/\ UpdateEvent(x, 3, Naive(4 * 3600), dl, 2)
                      /\ last'.result = "ok"
                      /\ events[x].delegate_lock_override = "")
                         => LocksAt(events'[x], dl.wall - dl.off)]_vars

(* C13: a roster replacement on an event whose lock state is locked        *)
(* (manual lock, or deadline passed without override) is rejected and      *)
(* leaves the rows and every flag as they were; under the override         *)
(* "unlocked" it is accepted, also after the deadline; under the override  *)
(* "locked" it is rejected, also before the deadline.                      *)
C13_LockedRosterIsRejected ==
    [][\A ids \in {<<>>, <<2>>, <<1, 2>>} :
          (1 \in DOMAIN events /\ SetEventDelegates(1, 1, ids)) =>
              LET override == events[1].delegate_lock_override
                  deadline == events[1].delegate_deadline
              IN  /\ LockTable(override, deadline, now).locked =>
                         /\ last'.result = "locked"
                         /\ delegates' = delegates
                         /\ users' = users
                  /\ override = "unlocked" => last'.result = "ok"
                  /\ override = "locked" => last'.result = "locked"
                  /\ (override = "" /\ Instant(deadline) < now) => last'.result = "locked"
                  /\ (override = "" /\ ~(Instant(deadline) < now)) => last'.result = "ok"]_vars

(* A roster replacement has just been accepted after the deadline, under   *)
(* the override "unlocked": the row it inserted is younger than the        *)
(* deadline.                                                               *)
C13_Witness ==
    /\ last = [op |-> "setEventDelegates", result |-> "ok"]
    /\ 1 \in DOMAIN events
    /\ events[1].delegate_lock_override = "unlocked"
    /\ Instant(events[1].delegate_deadline) < now
    /\ \E d \in delegates : d.event_id = 1 /\ d.created_at = now

(* A roster replacement has just been refused as locked while the event    *)
(* has rows and no override.                                               *)
C13_WitnessRejected ==
    /\ last = [op |-> "setEventDelegates", result |-> "locked"]
    /\ 1 \in DOMAIN events
    /\ events[1].delegate_lock_override = ""
    /\ EventDelegates(delegates, 1) # {}

(* Events created and edited with every limit of DelegateLimits, and the   *)
(* rosters of their organizations replaced.                                *)
NextLimit ==
    \/ \E lim \in DelegateLimits : CreateEvent(3, Naive(4 * 3600), Naive(3 * 3600), lim, FALSE)
    \/ \E x \in EventIds, lim \in DelegateLimits :
          UpdateEvent(x, 3, Naive(4 * 3600), Naive(3 * 3600), lim)
    \/ \E e \in EventIds, o \in Organizations, ids \in UserIdLists(UserIds) :
          SetEventDelegates(e, o, ids)

SpecLimit == Init /\ [][NextLimit]_vars

(* C14: in every state reached by roster replacements, event creations and *)
(* event updates, every event holds at most delegate_limit rows for each   *)
(* organization.                                                           *)
C14_RosterWithinLimit ==
    \A e \in DOMAIN events, o \in Organizations :
        Cardinality(existing_rows(delegates, e, o)) <= events[e].delegate_limit

----------------------------------------------------------------------------
(* Rosters over users of every standing: members of either organization,   *)
(* users without organization, unverified and unapproved ones.             *)

UserStandings ==
    {[organization_id |-> 1, is_email_verified |-> TRUE, admin_decision |-> "approved"],
     [organization_id |-> 2, is_email_verified |-> TRUE, admin_decision |-> "approved"],
     [organization_id |-> 1, is_email_verified |-> FALSE, admin_decision |-> "approved"],
     [organization_id |-> 1, is_email_verified |-> TRUE, admin_decision |-> "pending"],
     [organization_id |-> 0, is_email_verified |-> TRUE, admin_decision |-> "approved"]}

StoredUser(u, standing) ==
    [organization_id |-> standing.organization_id,
     is_admin |-> (u = 1),
     is_email_verified |-> standing.is_email_verified,
     admin_decision |-> standing.admin_decision,
     is_voting_delegate |-> FALSE,
     is_organization_contact |-> FALSE]

InitRoster ==
    /\ events = <<>>
    /\ delegates = {}
    /\ \E standing \in [UserIds -> UserStandings] :
          users = [u \in UserIds |-> StoredUser(u, standing[u])]
    /\ codes = {}
    /\ nextEventId = 1
    /\ now = 0
    /\ last = [op |-> "init", result |-> "ok"]
    /\ tx = [t \in Transactions |-> IdleTx]
    /\ InitHandoff

NextRoster ==
    \/ nextEventId = 1 /\ CreateEvent(3, Naive(4 * 3600), Naive(3 * 3600), 2, FALSE)
    \/ \E e \in EventIds, o \in Organizations, ids \in UserIdLists(UserIdInputs) :
          SetEventDelegates(e, o, ids)

SpecRoster == InitRoster /\ [][NextRoster]_vars

(* Whether user_id may not be selected for organization_id. *)
InvalidCandidate(user_id, organization_id) ==
    \/ user_id \notin DOMAIN users
    \/ users[user_id].organization_id # organization_id
    \/ ~users[user_id].is_email_verified
    \/ users[user_id].admin_decision # "approved"

(* C15: a roster replacement whose list names a user who does not exist,   *)
(* is not a member of the organization, is not verified or is not approved *)
(* is rejected, and no row is deleted or inserted: the rows and the flags  *)
(* are what they were.                                                     *)
C15_AllOrNothing ==
    [][\A e \in EventIds, o \in Organizations, ids \in UserIdLists(UserIdInputs) :
          (/\ last'.op = "setEventDelegates"
           /\ \E i \in DOMAIN ids : InvalidCandidate(ids[i], o)
           /\ SetEventDelegates(e, o, ids)) =>
              /\ last'.result \notin {"ok", "integrity_error"}
              /\ delegates' = delegates
              /\ users' = users]_vars

(* A replacement has just been rejected for a candidate while the          *)
(* organization holds a row and has both a member who may be selected and  *)
(* one who may not.                                                        *)
C15_Witness ==
    /\ last = [op |-> "setEventDelegates", result |-> "rejected"]
    /\ \E e \in DOMAIN events, o \in Organizations :
          /\ existing_rows(delegates, e, o) # {}
          /\ \E u, v \in DOMAIN users :
                /\ users[u].organization_id = o /\ ~InvalidCandidate(u, o)
                /\ users[v].organization_id = o /\ InvalidCandidate(v, o)

----------------------------------------------------------------------------
(* Rosters of approved members of both organizations, replaced at two      *)
(* different times: every list for the first event, the empty list and the *)
(* list of user 1 for the second.                                          *)

MemberStandings == {st \in UserStandings :
                        /\ st.organization_id # 0
                        /\ st.is_email_verified
                        /\ st.admin_decision = "approved"}

InitReplace ==
    /\ events = <<>>
    /\ delegates = {}
    /\ \E standing \in [UserIds -> MemberStandings] :
          users = [u \in UserIds |-> StoredUser(u, standing[u])]
    /\ codes = {}
    /\ nextEventId = 1
    /\ now = 0
    /\ last = [op |-> "init", result |-> "ok"]
    /\ tx = [t \in Transactions |-> IdleTx]
    /\ InitHandoff

NextReplace ==
    \/ nextEventId <= 2 /\ CreateEvent(3, Naive(4 * 3600), Naive(3 * 3600), 2, FALSE)
    \/ \E o \in Organizations, ids \in UserIdLists(UserIds) : SetEventDelegates(1, o, ids)
    \/ \E o \in Organizations, ids \in {<<>>, <<1>>} : SetEventDelegates(2, o, ids)
    \/ now = 0 /\ Tick

SpecReplace == InitReplace /\ [][NextReplace]_vars

(* Whether s lists the distinct elements of ids in the order of their      *)
(* first occurrence in ids.                                                *)
IsFirstSeenOrder(s, ids) ==
    LET first(x) == CHOOSE i \in DOMAIN ids :
                        ids[i] = x /\ \A j \in 1..(i - 1) : ids[j] # x
    IN  /\ Range(s) = Range(ids)
        /\ \A i, j \in DOMAIN s : i < j => first(s[i]) < first(s[j])

(* C16: an accepted roster replacement for (e, o) leaves exactly one row   *)
(* of (e, o) per distinct id; the rows of users no longer selected are     *)
(* gone, the rows of users still selected are the rows they were, only the *)
(* newly selected users get new rows, every row of another organization or *)
(* another event is untouched, and the returned list names the users in    *)
(* the order of their first occurrence in the input.                       *)
C16_ReplacementIsADiff ==
    [][\A e \in {1, 2}, o \in Organizations :
       \A ids \in IF e = 1 THEN UserIdLists(UserIds) ELSE {<<>>, <<1>>} :
          (/\ last'.op = "setEventDelegates"
           /\ last'.result = "ok"
           /\ SetEventDelegates(e, o, ids)) =>
              LET before == existing_rows(delegates, e, o)
                  after == existing_rows(delegates', e, o)
                  updated == set_event_delegates_updated(
                                  delegates, e, o, normalized_ids(ids), now)
              IN  /\ {d.user_id : d \in after} = Range(ids)
                  /\ Cardinality(after) = Cardinality(Range(ids))
                  /\ before \cap after = {d \in before : d.user_id \in Range(ids)}
                  /\ \A d \in after \ before :
                        /\ d.user_id \notin {b.user_id : b \in before}
                        /\ d.created_at = now
                  /\ delegates' \ after = delegates \ before
                  /\ IsFirstSeenOrder([i \in DOMAIN updated |-> updated[i].user_id], ids)
                  /\ Range(updated) = after]_vars

(* A replacement has just been accepted that kept an older row, inserted a *)
(* new one beside it, and left a row of another event in place.            *)
C16_Witness ==
    /\ last = [op |-> "setEventDelegates", result |-> "ok"]
    /\ now > 0
    /\ \E e \in DOMAIN events, o \in Organizations :
          /\ \E d1, d2 \in existing_rows(delegates, e, o) :
                d1.created_at < now /\ d2.created_at = now
          /\ \E d \in delegates : d.event_id # e

----------------------------------------------------------------------------
(* Rosters of both organizations replaced while members are removed and    *)
(* accounts deleted.                                                       *)

NextUnique ==
    \/ nextEventId <= 2 /\ CreateEvent(3, Naive(4 * 3600), Naive(3 * 3600), 2, FALSE)
    \/ \E e \in {1, 2}, o \in Organizations, ids \in UserIdLists(UserIds) :
          SetEventDelegates(e, o, ids)
    \/ \E o \in Organizations, u \in UserIds : RemoveMember(o, u)
    \/ \E u \in UserIds : DeleteUser(u)

SpecUnique == InitReplace /\ [][NextUnique]_vars

(* C17: in every state reached by roster replacements, member removals and *)
(* user deletions, no user has two rows on one event, whatever the         *)
(* organizations of the rows.                                              *)
C17_OneRowPerEventAndUser ==
    \A e \in EventIds, u \in UserIds :
        Cardinality({d \in delegates : d.event_id = e /\ d.user_id = u}) <= 1

(* A member has just been removed or an account deleted while a user who   *)
(* stays holds rows on two events.                                         *)
C17_Witness ==
    /\ last.op \in {"removeMember", "deleteUser"}
    /\ last.result = "ok"
    /\ \E d1, d2 \in delegates : d1.user_id = d2.user_id /\ d1.event_id # d2.event_id

(* The constraint uq_event_user never has to refuse a write.               *)
C17_ConstraintNeverFires == last.result # "integrity_error"

----------------------------------------------------------------------------
(* C18: generating codes for an existing event without delegate rows fails *)
(* as "unavailable", which is not the "not_found" of an unknown event, and *)
(* then no code is created or deleted, whatever regenerate is.             *)
C18_NoDelegatesNoCodesTouched ==
    [][\A e \in EventIds, regenerate \in BOOLEAN :
          (/\ last'.op = "generateAccessCodes"
           /\ GenerateAccessCodes(e, regenerate)) =>
              /\ (e \in DOMAIN events /\ EventDelegates(delegates, e) = {}) =>
                    /\ last'.result = "unavailable"
                    /\ codes' = codes
              /\ e \notin DOMAIN events =>
                    /\ last'.result = "not_found"
                    /\ codes' = codes
              /\ (e \in DOMAIN events /\ EventDelegates(delegates, e) # {}) =>
                    last'.result = "ok"]_vars

(* Generation has just failed as "unavailable" on an event that still      *)
(* holds codes from the time it had delegates, one of them redeemed.       *)
C18_Witness ==
    /\ last = [op |-> "generateAccessCodes", result |-> "unavailable"]
    /\ EventDelegates(delegates, 1) = {}
    /\ \E c \in EventCodes(codes, 1) : c.used_at # NoDatetime

(* C19: an accepted generation without regenerate adds                     *)
(* max(delegates - codes, 0) codes, counting used and unused codes alike;  *)
(* the new codes are unused, every code the event had is kept as it was,   *)
(* used_at and used_by_user_id included, and the event then holds at least *)
(* as many codes as delegates.                                             *)
C19_TopUpAddsTheMissingCodes ==
    [][\A e \in EventIds :
          (/\ last'.op = "generateAccessCodes"
           /\ last'.result = "ok"
           /\ GenerateAccessCodes(e, FALSE)) =>
              LET before == EventCodes(codes, e)
                  after == EventCodes(codes', e)
                  delegateCount == Cardinality(EventDelegates(delegates, e))
                  totalCodes == Cardinality(before)
              IN  /\ before \subseteq after
                  /\ Cardinality(after \ before) =
                        IF delegateCount > totalCodes THEN delegateCount - totalCodes ELSE 0
                  /\ \A c \in after \ before :
                        c.used_at = NoDatetime /\ c.used_by_user_id = 0
                  /\ Cardinality(after) >= delegateCount
                  /\ codes' \ after = codes \ before]_vars

(* A generation has just been accepted that added an unused code beside a  *)
(* redeemed one: the event has two delegates and two codes.                *)
C19_Witness ==
    /\ last = [op |-> "generateAccessCodes", result |-> "ok"]
    /\ Cardinality(EventDelegates(delegates, 1)) = 2
    /\ Cardinality(EventCodes(codes, 1)) = 2
    /\ \E c1, c2 \in EventCodes(codes, 1) :
          c1.used_at # NoDatetime /\ c2.used_at = NoDatetime

(* C20: in every state reached by generations, with or without regenerate, *)
(* and redemptions, no two codes of one event have the same text, and      *)
(* every code is four symbols of the alphabet, a hyphen, and four symbols  *)
(* of the alphabet.                                                        *)
C20_CodesDistinctAndWellFormed ==
    /\ \A c1, c2 \in codes :
          (c1.event_id = c2.event_id /\ c1.code = c2.code) => c1 = c2
    /\ \A c \in codes :
          /\ Len(c.code) = ACCESS_CODE_LENGTH + 1
          /\ c.code[5] = "-"
          /\ \A k \in (1..4) \cup (6..9) : c.code[k] \in ACCESS_CODE_ALPHABET

(* A code has just been redeemed on an event that holds two codes, both    *)
(* redeemed by now.                                                        *)
C20_Witness ==
    /\ last = [op |-> "redeemAccessCode", result |-> "ok"]
    /\ Cardinality(EventCodes(codes, 1)) = 2
    /\ \A c \in EventCodes(codes, 1) : c.used_at # NoDatetime

----------------------------------------------------------------------------
(* The number of alphanumeric characters of an input. *)
AlnumCount(raw) == Len(SelectSeq(raw, isalnum))

(* C21: a redemption whose input is not empty and does not hold exactly    *)
(* ACCESS_CODE_LENGTH alphanumeric characters, an input made only of       *)
(* separators included, fails as malformed; one whose input is well formed *)
(* and names no code of the event, a code of another event included, fails *)
(* as not found; and every failure leaves the codes as they were.          *)
C21_RedeemFailuresAreClassified ==
    [][\A e \in EventIds, raw \in CodeInputs, u \in UserIds :
          (/\ last'.op = "redeemAccessCode"
           /\ RedeemAccessCode(e, raw, u)) =>
              /\ (raw # <<>> /\ AlnumCount(raw) # ACCESS_CODE_LENGTH) =>
                    last'.result = "malformed"
              /\ (/\ AlnumCount(raw) = ACCESS_CODE_LENGTH
                  /\ code_records(codes, e, CanonicalInput[raw].code) = {}) =>
                    last'.result = "not_found"
              /\ last'.result # "ok" => codes' = codes]_vars

----------------------------------------------------------------------------
(* Cross-app handoff: minting the launch token. *)

(* set_organization_fee_status and its endpoint. *)
SetFeePaid(organization_id, fee_paid) ==
    IF organization_id \notin DOMAIN organizations
    THEN Failed("setFeePaid", "not_found")
    ELSE /\ organizations' = [organizations EXCEPT ![organization_id].fee_paid = fee_paid]
         /\ Done("setFeePaid", "ok")
         /\ UNCHANGED <<events, delegates, users, codes, nextEventId, now, tx,
                        sessions, request, invitations>>

(* get_active_voting_event: the rows its LIMIT 1 may return, 0 for None. *)
get_active_voting_event(evs) ==
    IF ActiveEvents(evs) = {} THEN {0} ELSE ActiveEvents(evs)

(* The view of the launch request; "absent" is a request without body. *)
requested_view(launch) == IF launch = "absent" THEN "default" ELSE launch

(* ensure_organization_membership. *)
ensure_organization_membership(user, organization_id) ==
    user.is_admin \/ (user.organization_id # 0 /\ user.organization_id = organization_id)

(* The checks on the caller that leave out the one of the delegate rows. *)
launch_check_undelegated(orgs, dels, user_id, user, organization_id, active_event, view) ==
    IF ~ensure_organization_membership(user, organization_id) THEN "not_member"
    ELSE IF organization_id \notin DOMAIN orgs THEN "not_found"
    ELSE IF ~orgs[organization_id].fee_paid THEN "fee_unpaid"
    ELSE IF active_event = 0 THEN "no_active_event"
    ELSE IF view = "admin" /\ ~user.is_admin THEN "admin_view"
    ELSE "ok"

(* The checks of create_voting_o2auth_session, in its order: "ok" or the   *)
(* failure it raises.                                                      *)
launch_check(orgs, dels, user_id, user, organization_id, active_event, view) ==
    IF ~ensure_organization_membership(user, organization_id) THEN "not_member"
    ELSE IF organization_id \notin DOMAIN orgs THEN "not_found"
    ELSE IF ~orgs[organization_id].fee_paid THEN "fee_unpaid"
    ELSE IF active_event = 0 THEN "no_active_event"
    ELSE IF view = "admin" /\ ~user.is_admin THEN "admin_view"
    ELSE IF /\ ~user.is_admin
            /\ view # "public"
            /\ ~\E d \in EventDelegates(dels, active_event) :
                   d.organization_id = organization_id /\ d.user_id = user_id
         THEN "not_delegate"
    ELSE "ok"

(* The status code of each outcome. *)
launch_status(result) ==
    CASE result = "ok" -> 200
      [] result = "not_found" -> 404
      [] OTHER -> 403

(* generate_voting_o2auth_token: the fields of the payload it signs that   *)
(* name the caller, the organization, the event and the view.              *)
generate_voting_o2auth_token(user_id, user, organization_id, event_id, view) ==
    [kind |-> "token",
     uid |-> user_id,
     org |-> organization_id,
     role |-> IF user.is_admin THEN "admin" ELSE "voter",
     event |-> event_id,
     view |-> view]

(* create_voting_o2auth_session for the logged-in user user_id. *)
MintLaunchToken(organization_id, user_id, launch) ==
    /\ user_id \in DOMAIN users
    /\ \E active_event \in get_active_voting_event(events) :
          LET view == requested_view(launch)
              check == launch_check(organizations, delegates, user_id, users[user_id],
                                    organization_id, active_event, view)
          IN  IF check # "ok"
              THEN Failed("mintLaunchToken", check)
              ELSE /\ DoneReturning("mintLaunchToken", "ok",
                                    generate_voting_o2auth_token(
                                        user_id, users[user_id], organization_id,
                                        active_event, view))
                   /\ UNCHANGED <<events, delegates, users, codes, nextEventId, now, tx,
                                  organizations, sessions, request, invitations>>

OrganizationInputs == Organizations \cup {3}
LaunchInputs == {"absent", "default", "admin", "public"}

(* Launches by every user into every organization, while fees are settled, *)
(* one event is created with or without activation, and the roster of the  *)
(* first event changes.                                                    *)
NextLaunch ==
    \/ \E o \in OrganizationInputs, paid \in BOOLEAN : SetFeePaid(o, paid)
    \/ \E activate \in BOOLEAN :
          nextEventId = 1 /\ CreateEvent(3, Naive(4 * 3600), Naive(3 * 3600), 2, activate)
    \/ ResetAllEvents
    \/ \E o \in Organizations, ids \in {<<>>, <<2>>, <<NumUsers>>} : SetEventDelegates(1, o, ids)
    \/ \E o \in OrganizationInputs, u \in UserIds, launch \in LaunchInputs :
          MintLaunchToken(o, u, launch)

SpecLaunch == Init /\ [][NextLaunch]_vars

(* C22: minting checks its preconditions in order: an organization that    *)
(* does not exist is NotFound; otherwise an unpaid organization is         *)
(* Forbidden, and not for the active event or the delegate rows; otherwise *)
(* a missing active event fails; otherwise view=admin by a non-admin       *)
(* fails; otherwise the delegate check decides.                            *)
C22_LaunchChecksInOrder ==
    [][\A o \in OrganizationInputs, u \in UserIds, launch \in LaunchInputs :
          (/\ last'.op = "mintLaunchToken"
           /\ MintLaunchToken(o, u, launch)) =>
              LET result == last'.result
                  view == requested_view(launch)
              IN  IF o \notin DOMAIN organizations
                  THEN launch_status(result) = 404
                  ELSE IF ~organizations[o].fee_paid
                  THEN /\ launch_status(result) = 403
                       /\ result \notin {"no_active_event", "admin_view", "not_delegate"}
                  ELSE IF ActiveEvents(events) = {}
                  THEN result \notin {"ok", "admin_view", "not_delegate"}
                  ELSE IF view = "admin" /\ ~users[u].is_admin
                  THEN result \notin {"ok", "not_delegate"}
                  ELSE (result = "ok") <=>
                          \/ users[u].is_admin
                          \/ /\ users[u].organization_id = o
                             /\ \/ view = "public"
                                \/ \E d \in delegates :
                                      /\ d.event_id \in ActiveEvents(events)
                                      /\ d.organization_id = o
                                      /\ d.user_id = u]_vars

(* C23: the token a launch has just minted names the active event; if its  *)
(* caller is not an administrator, the organization exists and has paid,   *)
(* and the view is public or the caller holds a delegate row of that       *)
(* organization on the active event; a token with the role admin or the    *)
(* view admin belongs to an administrator.                                 *)
C23_TokenOnlyForEntitledCaller ==
    (last = [op |-> "mintLaunchToken", result |-> "ok"]) =>
        /\ returned.kind = "token"
        /\ returned.event \in ActiveEvents(events)
        /\ ~users[returned.uid].is_admin =>
              /\ returned.org \in DOMAIN organizations
              /\ organizations[returned.org].fee_paid
              /\ \/ returned.view = "public"
                 \/ \E d \in delegates :
                       /\ d.event_id = returned.event
                       /\ d.organization_id = returned.org
                       /\ d.user_id = returned.uid
        /\ (returned.role = "admin" \/ returned.view = "admin") =>
              users[returned.uid].is_admin

(* A delegate who is no administrator has just been given a token for the  *)
(* default view.                                                           *)
C23_Witness ==
    /\ last = [op |-> "mintLaunchToken", result |-> "ok"]
    /\ returned.role = "voter"
    /\ returned.view = "default"

----------------------------------------------------------------------------
(* Cross-app handoff: the authentication request of the voting app.        *)
(* An e-mail address is a sequence of characters.  The text that is signed *)
(* is "timestamp:email:password"; neither an integer nor a validated       *)
(* address holds a colon, so the text and the triple determine each other  *)
(* and the triple stands for the text.  An HMAC is the pair of its key and *)
(* its text: two HMACs are equal exactly when both are.  The signature of  *)
(* a payload is hexadecimal text: a digest, and the way it is written.     *)

VOTING_O2AUTH_SECRET == "development-secret"

lower(ch) ==
    CASE ch = "A" -> "a"
      [] ch = "B" -> "b"
      [] OTHER -> ch

lower_str(value) == [i \in DOMAIN value |-> lower(value[i])]

hmac(key, message) == [key |-> key, message |-> message]

(* signature.strip().lower() *)
provided_signature(signature) == [signature EXCEPT !.text = "lower"]

expected_signature(payload) ==
    [digest |-> hmac(VOTING_O2AUTH_SECRET,
                     <<payload.timestamp, lower_str(payload.email), payload.password>>),
     text |-> "lower"]

abs(n) == IF n < 0 THEN 0 - n ELSE n

max(a, b) == IF a > b THEN a ELSE b

(* A validation that compares the signatures before it looks at the age. *)
_validate_signature_first(payload, current_time) ==
    IF expected_signature(payload) # provided_signature(payload.signature)
    THEN "bad_signature"
    ELSE IF abs(current_time - payload.timestamp) > max(VOTING_AUTH_TTL_SECONDS, 1)
    THEN "expired"
    ELSE "ok"

(* _validate_voting_auth_request: "ok" or the failure it raises. *)
_validate_voting_auth_request(payload, current_time) ==
    IF abs(current_time - payload.timestamp) > max(VOTING_AUTH_TTL_SECONDS, 1)
    THEN "expired"
    ELSE IF expected_signature(payload) # provided_signature(payload.signature)
    THEN "bad_signature"
    ELSE "ok"

(* The status code of each outcome. *)
auth_status(result) ==
    CASE result = "expired" -> 400
      [] result = "bad_signature" -> 403
      [] OTHER -> 200

(* authenticate_for_voting up to the call of authenticate_user, for the    *)
(* payload the service has received; the payload may arrive again later.   *)
ValidateAuthRequest ==
    /\ request.pc = "auth"
    /\ Done("validateAuthRequest", _validate_voting_auth_request(request.payload, now))
    /\ UNCHANGED <<events, delegates, users, codes, nextEventId, now, tx,
                   organizations, sessions, request, invitations>>

(* The payloads: signed by the holder of the secret or of another key, at  *)
(* a time around the window of the first or of the second hour, for an     *)
(* address and a password; then sent as signed or with fields altered.     *)
AuthTimestamps ==
    {0 - (VOTING_AUTH_TTL_SECONDS + 1), 0 - VOTING_AUTH_TTL_SECONDS,
     VOTING_AUTH_TTL_SECONDS, VOTING_AUTH_TTL_SECONDS + 1,
     3600 - (VOTING_AUTH_TTL_SECONDS + 1), 3600 - VOTING_AUTH_TTL_SECONDS}

AuthEmails == {<<"a", "@", "x">>, <<"A", "@", "x">>, <<"b", "@", "x">>}

AuthPasswords == {"p", "q"}

AuthSignatures ==
    {[digest |-> hmac(key, <<timestamp, lower_str(email), password>>), text |-> text] :
        key \in {VOTING_O2AUTH_SECRET, "another-secret"},
        timestamp \in AuthTimestamps,
        email \in {<<"a", "@", "x">>, <<"b", "@", "x">>},
        password \in AuthPasswords,
        text \in {"lower", "upper"}}

AuthPayloads ==
    [timestamp : AuthTimestamps, email : AuthEmails, password : AuthPasswords,
     signature : AuthSignatures]

InitAuth ==
    /\ events = <<>>
    /\ delegates = {}
    /\ users = [u \in UserIds |-> InitialUser(u)]
    /\ codes = {}
    /\ nextEventId = 1
    /\ now = 0
    /\ last = [op |-> "init", result |-> "ok"]
    /\ tx = [t \in Transactions |-> IdleTx]
    /\ organizations = [o \in Organizations |-> [fee_paid |-> FALSE]]
    /\ sessions = NoSessions
    /\ returned = NoValue
    /\ \E payload \in AuthPayloads : request = [pc |-> "auth", payload |-> payload]
    /\ invitations = NoInvitations

NextAuth ==
    \/ ValidateAuthRequest
    \/ Tick

SpecAuth == InitAuth /\ [][NextAuth]_vars

(* Whether the payload is within the window at the current time. *)
Fresh(payload) ==
    /\ now - payload.timestamp <= VOTING_AUTH_TTL_SECONDS
    /\ payload.timestamp - now <= VOTING_AUTH_TTL_SECONDS

(* Whether the signature is the HMAC, under the secret, of the timestamp,  *)
(* the lower-cased address and the password the payload carries.           *)
Genuine(payload) ==
    /\ payload.signature.digest.key = VOTING_O2AUTH_SECRET
    /\ payload.signature.digest.message[1] = payload.timestamp
    /\ payload.signature.digest.message[2] = lower_str(payload.email)
    /\ payload.signature.digest.message[3] = payload.password

(* C24: a payload is passed on exactly when it is fresh and its signature  *)
(* is genuine; a stale payload fails on freshness (400) whatever its       *)
(* signature; a fresh payload whose timestamp, address or password is not  *)
(* what was signed fails on the signature (403); nothing is accepted later *)
(* than timestamp + TTL.                                                   *)
C24_AuthRequestFreshAndSigned ==
    [][ValidateAuthRequest =>
          LET payload == request.payload
              result == last'.result
          IN  /\ (result = "ok") <=> (Fresh(payload) /\ Genuine(payload))
              /\ ~Fresh(payload) => (result = "expired" /\ auth_status(result) = 400)
              /\ (Fresh(payload) /\ ~Genuine(payload)) =>
                    (result = "bad_signature" /\ auth_status(result) = 403)
              /\ result = "ok" => now <= payload.timestamp + VOTING_AUTH_TTL_SECONDS]_vars

(* A payload with a genuine signature has just been refused as expired,    *)
(* one second after its window closed.                                     *)
C24_Witness ==
    /\ last = [op |-> "validateAuthRequest", result |-> "expired"]
    /\ request.pc = "auth"
    /\ Genuine(request.payload)
    /\ now = request.payload.timestamp + VOTING_AUTH_TTL_SECONDS + 1

(* A payload whose password was changed after signing has just been        *)
(* refused for its signature while fresh.                                  *)
C24_WitnessTampered ==
    /\ last = [op |-> "validateAuthRequest", result |-> "bad_signature"]
    /\ request.pc = "auth"
    /\ Fresh(request.payload)
    /\ request.payload.signature.digest.key = VOTING_O2AUTH_SECRET
    /\ request.payload.signature.digest.message[1] = request.payload.timestamp
    /\ request.payload.signature.digest.message[3] # request.payload.password

----------------------------------------------------------------------------
(* Cross-app handoff: the event-state push of the admin endpoints.  One    *)
(* request is followed through its handler: the service call and the flush *)
(* in the transaction of the session, db.commit(), the read of the active  *)
(* event for the payload, the HTTP call, the answer.  A statement on a     *)
(* session without transaction begins one; commit, rollback and close end  *)
(* it.                                                                     *)

SyncOps == {"createEvent", "updateEvent", "activateEvent", "setVotingEnabled",
            "resetAllEvents"}

(* The outcomes of httpx.post and raise_for_status. *)
PushOutcomes == {"2xx", "timeout", "connect_error", "non_2xx"}

(* The refusal of the service function of the endpoint, or "ok". *)
admin_check(evs, op, x, flag) ==
    CASE op = "createEvent" -> "ok"
      [] op = "resetAllEvents" -> "ok"
      [] x \notin DOMAIN evs -> "not_found"
      [] op = "setVotingEnabled" -> set_voting_event_accessibility(evs[x], flag)
      [] OTHER -> "ok"

(* The tables as the service function and the flush leave them in the      *)
(* transaction, and the value the endpoint answers with.                   *)
admin_pending(evs, dels, us, next_id, op, x, flag) ==
    CASE op = "createEvent" ->
            LET created == create_voting_event(evs, next_id, Naive(3 * 3600), 2, flag)
            IN  [events |-> created,
                 delegates |-> dels,
                 users |-> IF created[next_id].is_active
                           THEN synchronize_delegate_flags(
                                    us, refresh_delegates(dels, dels), next_id)
                           ELSE us,
                 nextEventId |-> next_id + 1,
                 response |-> [kind |-> "event", id |-> next_id]]
      [] op = "updateEvent" ->
            [events |-> [evs EXCEPT ![x] = update_voting_event(@, Naive(3 * 3600), 1)],
             delegates |-> dels, users |-> us, nextEventId |-> next_id,
             response |-> [kind |-> "event", id |-> x]]
      [] op = "activateEvent" ->
            [events |-> set_active_voting_event(evs, x),
             delegates |-> dels,
             users |-> synchronize_delegate_flags(us, refresh_delegates(dels, dels), x),
             nextEventId |-> next_id,
             response |-> [kind |-> "event", id |-> x]]
      [] op = "setVotingEnabled" ->
            [events |-> [evs EXCEPT ![x].is_voting_enabled = flag],
             delegates |-> dels, users |-> us, nextEventId |-> next_id,
             response |-> [kind |-> "event", id |-> x]]
      [] op = "resetAllEvents" ->
            IF DOMAIN evs = {}
            THEN [events |-> evs, delegates |-> dels, users |-> us,
                  nextEventId |-> next_id,
                  response |-> RemovedCount(0)]
            ELSE [events |-> <<>>,
                  delegates |-> {},
                  users |-> reset_users(evs, us),
                  nextEventId |-> next_id,
                  response |-> RemovedCount(Cardinality(DOMAIN evs))]

(* The require_admin dependency, the service function and the flush: the   *)
(* session is in a transaction from its first statement on.  A refusal     *)
(* rolls back and answers at once.                                         *)
ReqCall(op, x, flag) ==
    /\ request.pc = "idle"
    /\ op = "createEvent" => nextEventId <= MaxEvents
    /\ IF admin_check(events, op, x, flag) # "ok"
       THEN Failed(op, admin_check(events, op, x, flag))
       ELSE /\ request' = [pc |-> "flushed",
                           op |-> op,
                           pending |-> admin_pending(events, delegates, users, nextEventId,
                                                     op, x, flag),
                           committed |-> FALSE,
                           in_transaction |-> TRUE,
                           outcome |-> "none",
                           raised |-> FALSE]
            /\ UNCHANGED <<events, delegates, users, codes, nextEventId, now, last, tx,
                           organizations, sessions, returned, invitations>>

(* db.commit() *)
ReqCommit ==
    /\ request.pc = "flushed"
    /\ events' = request.pending.events
    /\ delegates' = request.pending.delegates
    /\ users' = request.pending.users
    /\ nextEventId' = request.pending.nextEventId
    /\ request' = [request EXCEPT !.pc = "committed",
                                  !.committed = TRUE,
                                  !.in_transaction = FALSE]
    /\ UNCHANGED <<codes, now, last, tx, organizations, sessions, returned, invitations>>

(* _sync_active_event reads the active event on the session, which begins  *)
(* a transaction; reset_events_endpoint builds the payload of None without *)
(* a statement.  Then httpx.post is called.                                *)
ReqPushSend ==
    /\ request.pc = "committed"
    /\ request' = [request EXCEPT !.pc = "pushing",
                                  !.in_transaction = (request.op # "resetAllEvents")]
    /\ UNCHANGED <<events, delegates, users, codes, nextEventId, now, last, tx,
                   organizations, sessions, returned, invitations>>

(* A push whose failure leaves _sync_voting_service as an exception. *)
_sync_voting_service_unguarded(outcome) == outcome # "2xx"

(* _sync_voting_service: whether an exception leaves it, for each outcome  *)
(* of the HTTP call.                                                       *)
_sync_voting_service(outcome) == FALSE

(* The HTTP call ends. *)
ReqPushEnd(outcome) ==
    /\ request.pc = "pushing"
    /\ request' = [request EXCEPT !.pc = "synced",
                                  !.outcome = outcome,
                                  !.raised = _sync_voting_service(outcome)]
    /\ UNCHANGED <<events, delegates, users, codes, nextEventId, now, last, tx,
                   organizations, sessions, returned, invitations>>

(* The endpoint answers and get_db closes the session.  The request record *)
(* keeps nothing but its position.                                         *)
ReqReturn ==
    /\ request.pc = "synced"
    /\ IF request.raised
       THEN DoneReturning(request.op, "error", NoValue)
       ELSE DoneReturning(request.op, "ok", request.pending.response)
    /\ request' = IdleRequest
    /\ UNCHANGED <<events, delegates, users, codes, nextEventId, now, tx,
                   organizations, sessions, invitations>>

NextSync ==
    \/ \E op \in SyncOps, x \in EventIds, flag \in BOOLEAN : ReqCall(op, x, flag)
    \/ ReqCommit
    \/ ReqPushSend
    \/ \E outcome \in PushOutcomes : ReqPushEnd(outcome)
    \/ ReqReturn
    \/ \E ids \in {<<>>, <<2>>} : request.pc = "idle" /\ SetEventDelegates(1, 1, ids)

SpecSync == Init /\ [][NextSync]_vars

(* The committed tables. *)
Store == <<events, delegates, users, codes, nextEventId>>

(* C25: whatever the outcome of the push, the tables stay as the commit    *)
(* left them, and the operation answers with its own result, the same as   *)
(* after a push that succeeded.                                            *)
C25_PushFailureIsSwallowed ==
    /\ [][(\E outcome \in PushOutcomes : ReqPushEnd(outcome)) => Store' = Store]_vars
    /\ [][ReqReturn =>
             /\ Store' = Store
             /\ events = request.pending.events
             /\ delegates = request.pending.delegates
             /\ users = request.pending.users
             /\ last' = [op |-> request.op, result |-> "ok"]
             /\ returned' = request.pending.response]_vars

(* An activation is committed, its push has timed out, and the handler     *)
(* goes on to its answer.                                                  *)
C25_Witness ==
    /\ request.pc = "synced"
    /\ request.op = "activateEvent"
    /\ request.outcome = "timeout"
    /\ ~request.raised
    /\ events = request.pending.events
    /\ \E x \in DOMAIN events : events[x].is_active

(* C26: while the push is in flight the mutation is committed and the      *)
(* session of the request has no transaction open.                         *)
C26_NoTransactionDuringPush ==
    request.pc = "pushing" => request.committed /\ ~request.in_transaction

(* The first half alone: the push is in flight only after the commit. *)
C26_PushAfterCommit ==
    request.pc = "pushing" =>
        /\ request.committed
        /\ events = request.pending.events
        /\ delegates = request.pending.delegates
        /\ users = request.pending.users

(* The reset endpoint pushes without a transaction. *)
C26_ResetPushesOutsideTransaction ==
    request.pc = "pushing" /\ request.op = "resetAllEvents" => ~request.in_transaction

----------------------------------------------------------------------------
(* Identity and session ledger: login, password change, revocation and     *)
(* resolution of session tokens.  A row of session_tokens is               *)
(* [token, user_id, expires_at]; the token is uuid4().hex, modelled by the *)
(* number of the draw, so that a new token differs from every earlier one. *)

SESSION_TOKEN_TTL_HOURS == 24
MaxTokens == 4

(* A password is known by its tag, its length and the character classes    *)
(* validate_password_strength looks at.                                    *)
Password(tag, length, has_upper, has_special) ==
    [tag |-> tag, length |-> length, upper |-> has_upper, special |-> has_special]

Passwords ==
    {Password("first", 8, TRUE, TRUE), Password("second", 9, TRUE, TRUE),
     Password("short", 7, TRUE, TRUE)}

(* hash_password: the stored hash stands for the password it was made of. *)
hash_password(password) == [hash_of |-> password.tag]

verify_password(password, stored_hash) == hash_password(password) = stored_hash

validate_password_strength(password) ==
    /\ password.length >= 8
    /\ password.upper
    /\ password.special

(* Session creation that leaves the earlier rows of the user in place. *)
create_session_token_keeping(sess, user_id, current_time) ==
    [rows |-> sess.rows \cup {[token |-> sess.uuid + 1, user_id |-> user_id, expires_at |-> current_time + SESSION_TOKEN_TTL_HOURS * 3600]},
     uuid |-> sess.uuid + 1]

(* create_session_token: the rows of the user are deleted, one row with a  *)
(* new token is added.                                                     *)
create_session_token(sess, user_id, current_time) ==
    [rows |-> {r \in sess.rows : r.user_id # user_id}
              \cup {[token |-> sess.uuid + 1,
                     user_id |-> user_id,
                     expires_at |-> current_time + SESSION_TOKEN_TTL_HOURS * 3600]},
     uuid |-> sess.uuid + 1]

(* resolve_session_user: the user id, or 0 for None. *)
resolve_session_user(sess, token_value, current_time) ==
    IF \E r \in sess.rows : r.token = token_value /\ r.expires_at > current_time
    THEN (CHOOSE r \in sess.rows : r.token = token_value).user_id
    ELSE 0

(* The rows after resolve_session_user: an expired row is deleted. *)
resolve_session_rows(sess, token_value, current_time) ==
    [sess EXCEPT !.rows = {r \in @ : ~(r.token = token_value /\ r.expires_at <= current_time)}]

(* authenticate_user *)
authenticate_user(us, user_id, password) ==
    IF user_id \notin DOMAIN us THEN "bad_credentials"
    ELSE IF ~verify_password(password, us[user_id].password_hash) THEN "bad_credentials"
    ELSE IF ~us[user_id].is_email_verified THEN "unverified"
    ELSE IF us[user_id].admin_decision # "approved" THEN "unapproved"
    ELSE "ok"

SessionValue(token) == [kind |-> "session", token |-> token]

(* POST /api/login *)
Login(user_id, password) ==
    /\ sessions.uuid < MaxTokens
    /\ IF authenticate_user(users, user_id, password) # "ok"
       THEN Failed("login", authenticate_user(users, user_id, password))
       ELSE /\ sessions' = create_session_token(sessions, user_id, now)
            /\ DoneReturning("login", "ok", SessionValue(sessions'.uuid))
            /\ UNCHANGED <<events, delegates, users, codes, nextEventId, now, tx,
                           organizations, request, invitations>>

(* POST /api/change-password: get_session_user, then change_user_password. *)
(* A refusal closes the session without commit.                            *)
ChangePassword(token_value, current_password, new_password) ==
    /\ sessions.uuid < MaxTokens
    /\ LET user_id == resolve_session_user(sessions, token_value, now)
       IN  IF user_id = 0
           THEN Failed("changePassword", "unauthenticated")
           ELSE IF ~verify_password(current_password, users[user_id].password_hash)
           THEN Failed("changePassword", "rejected")
           ELSE IF ~validate_password_strength(new_password)
           THEN Failed("changePassword", "weak")
           ELSE /\ users' = [users EXCEPT ![user_id].password_hash = hash_password(new_password)]
                /\ sessions' = create_session_token(
                       [sessions EXCEPT !.rows = {r \in @ : r.user_id # user_id}],
                       user_id, now)
                /\ DoneReturning("changePassword", "ok", SessionValue(sessions'.uuid))
                /\ UNCHANGED <<events, delegates, codes, nextEventId, now, tx,
                               organizations, request, invitations>>

(* revoke_session_token *)
RevokeSession(token_value) ==
    /\ sessions' = [sessions EXCEPT !.rows = {r \in @ : r.token # token_value}]
    /\ DoneReturning("revokeSession", "ok",
                     [kind |-> "deleted",
                      deleted |-> \E r \in sessions.rows : r.token = token_value])
    /\ UNCHANGED <<events, delegates, users, codes, nextEventId, now, tx,
                   organizations, request, invitations>>

(* resolve_session_user.  The deletion of an expired row is kept when the  *)
(* caller commits; get_session_user answers 401 and the session is closed  *)
(* without commit.                                                         *)
ResolveSession(token_value, commits) ==
    /\ sessions' = IF commits THEN resolve_session_rows(sessions, token_value, now)
                   ELSE sessions
    /\ LET user_id == resolve_session_user(sessions, token_value, now)
       IN  IF user_id = 0
           THEN DoneReturning("resolveSession", "none", NoValue)
           ELSE DoneReturning("resolveSession", "ok", [kind |-> "user", id |-> user_id])
    /\ UNCHANGED <<events, delegates, users, codes, nextEventId, now, tx,
                   organizations, request, invitations>>

(* The clock of the session ledger moves by half days. *)
TickHalfDay ==
    /\ now < MaxTime * 24 * 3600
    /\ now' = now + 12 * 3600
    /\ UNCHANGED <<events, delegates, users, codes, nextEventId, last, tx,
                   organizations, sessions, returned, request, invitations>>

Tokens == 1..MaxTokens

InitSessions ==
    /\ events = <<>>
    /\ delegates = {}
    /\ users = [u \in UserIds |->
                   [InitialUser(u) @@ [password_hash |-> hash_password(Password("first", 8, TRUE, TRUE))]
                       EXCEPT !.is_email_verified = (u # NumUsers \/ u = 1)]]
    /\ codes = {}
    /\ nextEventId = 1
    /\ now = 0
    /\ last = [op |-> "init", result |-> "ok"]
    /\ tx = [t \in Transactions |-> IdleTx]
    /\ organizations = [o \in Organizations |-> [fee_paid |-> FALSE]]
    /\ sessions = NoSessions
    /\ returned = NoValue
    /\ request = IdleRequest
    /\ invitations = NoInvitations

NextSessions ==
    \/ \E u \in 1..(NumUsers + 1), p \in Passwords : Login(u, p)
    \/ \E t \in Tokens, p \in Passwords, q \in Passwords : ChangePassword(t, p, q)
    \/ \E t \in Tokens : RevokeSession(t)
    \/ \E t \in Tokens, commits \in BOOLEAN : ResolveSession(t, commits)
    \/ TickHalfDay

SpecSessions == InitSessions /\ [][NextSessions]_vars

TokensOf(sess, user_id) == {r.token : r \in {q \in sess.rows : q.user_id = user_id}}

(* C27: each user has at most one session token; after a login or a        *)
(* password change of a user the only token of that user is the one just   *)
(* drawn; a token that is gone never comes back; and a token resolves only *)
(* to the user of its row.  So a token of an earlier login or password     *)
(* change never resolves to the user after a later one.                    *)
C27_AtMostOneToken ==
    \A u \in DOMAIN users : Cardinality(TokensOf(sessions, u)) <= 1

C27_SingleLiveSession ==
    /\ []C27_AtMostOneToken
    /\ [][/\ last'.op \in {"login", "changePassword"} /\ last'.result = "ok"
          /\ sessions'.uuid = sessions.uuid + 1
          => \E u \in DOMAIN users :
                /\ TokensOf(sessions', u) = {sessions'.uuid}
                /\ \A v \in DOMAIN users \ {u} : TokensOf(sessions', v) = TokensOf(sessions, v)]_vars
    /\ [][\A r \in sessions'.rows \ sessions.rows : r.token > sessions.uuid]_vars
    /\ [][last'.op = "resolveSession" /\ last'.result = "ok" /\ now' = now
          => \E r \in sessions.rows : r.user_id = returned'.id /\ r.expires_at > now]_vars

(* User 1 has logged in twice; the token of the first login is gone and    *)
(* the second one is the only row of the user.                             *)
C27_Witness ==
    /\ sessions.uuid >= 2
    /\ last = [op |-> "login", result |-> "ok"]
    /\ TokensOf(sessions, 1) = {sessions.uuid}
    /\ resolve_session_user(sessions, 1, now) = 0

----------------------------------------------------------------------------
(* The event lifecycle with a roster: enabling, deleting and resetting.    *)

(* seed_admin_user stores the administrator with is_voting_delegate = True *)
(* at every start, when ADMIN_EMAIL and ADMIN_PASSWORD are configured.     *)
seed_admin_user(us, seeded) ==
    [u \in DOMAIN us |->
        IF seeded /\ us[u].is_admin
        THEN [us[u] EXCEPT !.is_voting_delegate = TRUE]
        ELSE us[u]]

InitLifecycle ==
    /\ events = <<>>
    /\ delegates = {}
    /\ \E seeded \in BOOLEAN :
          users = seed_admin_user([u \in UserIds |-> InitialUser(u)], seeded)
    /\ codes = {}
    /\ nextEventId = 1
    /\ now = 0
    /\ last = [op |-> "init", result |-> "ok"]
    /\ tx = [t \in Transactions |-> IdleTx]
    /\ InitHandoff

NextLifecycle ==
    \/ \E activate \in BOOLEAN :
          CreateEvent(3, Naive(4 * 3600), Naive(3 * 3600), 2, activate)
    \/ \E x \in EventIds : ActivateEvent(x)
    \/ \E x \in EventIds, en \in BOOLEAN : SetVotingEnabled(x, en)
    \/ \E x \in EventIds : DeleteEvent(x)
    \/ ResetAllEvents
    \/ \E e \in EventIds, ids \in {<<>>, <<2>>} : SetEventDelegates(e, 1, ids)

SpecLifecycle == InitLifecycle /\ [][NextLifecycle]_vars

Tables == <<events, delegates, users, codes, nextEventId, organizations, sessions>>

(* C28: enabling voting on an event that is not active is refused and      *)
(* changes no field of any event; disabling succeeds on every existing     *)
(* event, active or not, and changes nothing but is_voting_enabled of that *)
(* event.                                                                  *)
C28_EnableOnlyActive ==
    [][\A x \in DOMAIN events :
          /\ (/\ last'.op = "setVotingEnabled"
              /\ ~events[x].is_active
              /\ SetVotingEnabled(x, TRUE)
              => last'.result = "rejected" /\ Tables' = Tables)
          /\ (/\ last'.op = "setVotingEnabled"
              /\ SetVotingEnabled(x, FALSE)
              => /\ last'.result = "ok"
                 /\ events' = [events EXCEPT ![x].is_voting_enabled = FALSE]
                 /\ UNCHANGED <<delegates, users, codes>>)]_vars

(* Enabling was refused on an event that is not active while another event *)
(* is active and enabled.                                                  *)
C28_Witness ==
    /\ last = [op |-> "setVotingEnabled", result |-> "rejected"]
    /\ \E x \in DOMAIN events : ~events[x].is_active /\ ~events[x].is_voting_enabled
    /\ \E x \in DOMAIN events : events[x].is_active /\ events[x].is_voting_enabled

(* Disabling succeeded while an event that is not active exists. *)
C28_WitnessDisabled ==
    /\ last = [op |-> "setVotingEnabled", result |-> "ok"]
    /\ \E x \in DOMAIN events : ~events[x].is_active
    /\ \A x \in DOMAIN events : ~events[x].is_voting_enabled

(* C29: deleting the active event is refused and changes no event, no      *)
(* delegate row and no flag; an event leaves the table only when it is not *)
(* active, by deleteEvent, or by resetAllEvents.                           *)
C29_ActiveEventIsNotDeleted ==
    /\ [][\A x \in DOMAIN events :
             /\ last'.op = "deleteEvent"
             /\ events[x].is_active
             /\ DeleteEvent(x)
             => last'.result = "rejected" /\ Tables' = Tables]_vars
    /\ [][\A x \in DOMAIN events :
             x \notin DOMAIN events'
             => \/ last'.op = "resetAllEvents"
                \/ last'.op = "deleteEvent" /\ last'.result = "ok" /\ ~events[x].is_active]_vars

(* The deletion of the active event, which has a delegate row, was         *)
(* refused.                                                                *)
C29_Witness ==
    /\ last = [op |-> "deleteEvent", result |-> "rejected"]
    /\ \E x \in DOMAIN events :
          events[x].is_active /\ EventDelegates(delegates, x) # {}

(* C30: after a reset no event and no delegate row exists, the flag of     *)
(* every user is false, the number returned is the number of events before *)
(* the call, and without events nothing changes.                           *)
C30_ResetClearsEverything ==
    [][last'.op = "resetAllEvents" /\ ResetAllEvents
       => /\ DOMAIN events' = {}
          /\ delegates' = {}
          /\ \A u \in DOMAIN users' : ~users'[u].is_voting_delegate
          /\ returned' = RemovedCount(Cardinality(DOMAIN events))
          /\ (DOMAIN events = {} => Tables' = Tables)]_vars

(* The same without the flags when no event exists. *)
C30_ResetWithEvents ==
    [][last'.op = "resetAllEvents" /\ ResetAllEvents
       => /\ DOMAIN events' = {}
          /\ delegates' = {}
          /\ (DOMAIN events # {} => \A u \in DOMAIN users' : ~users'[u].is_voting_delegate)
          /\ returned' = RemovedCount(Cardinality(DOMAIN events))
          /\ (DOMAIN events = {} => Tables' = Tables)]_vars

----------------------------------------------------------------------------
(* Ownership: the rows an event owns, over creation, roster replacement,   *)
(* code generation, deletion and reset.                                    *)

NextOwnership ==
    \/ \E activate \in BOOLEAN :
          CreateEvent(3, Naive(4 * 3600), Naive(3 * 3600), 2, activate)
    \/ \E e \in EventIds, ids \in {<<>>, <<2>>} : SetEventDelegates(e, 1, ids)
    \/ \E e \in EventIds, regenerate \in BOOLEAN : GenerateAccessCodes(e, regenerate)
    \/ \E x \in EventIds : DeleteEvent(x)
    \/ ResetAllEvents

SpecOwnership == Init /\ [][NextOwnership]_vars

(* C31: every delegate row and every access code belongs to an event that  *)
(* exists.                                                                 *)
C31_NoOrphanRows ==
    /\ \A d \in delegates : d.event_id \in DOMAIN events
    /\ \A c \in codes : c.event_id \in DOMAIN events

(* The delegate rows alone. *)
C31_NoOrphanDelegates == \A d \in delegates : d.event_id \in DOMAIN events

(* The access codes over every step but a reset. *)
C31_DeletionTakesCodes ==
    [][last'.op # "resetAllEvents" /\ (\A c \in codes : c.event_id \in DOMAIN events)
       => \A c \in codes' : c.event_id \in DOMAIN events']_vars

----------------------------------------------------------------------------
(* Organization registry: invitations.  A row of organization_invitations  *)
(* is [id, organization_id, email, role, token, accepted]; an e-mail       *)
(* address is a sequence of characters.                                    *)

MaxInvitations == 3

(* str.strip() *)
RECURSIVE strip(_)
strip(value) ==
    IF value = <<>> THEN value
    ELSE IF Head(value) = " " THEN strip(Tail(value))
    ELSE IF value[Len(value)] = " " THEN strip(SubSeq(value, 1, Len(value) - 1))
    ELSE value

_normalize_email(value) == lower_str(strip(value))

EmailTaken(us, email) == \E u \in DOMAIN us : lower_str(us[u].email) = lower_str(email)

ContactUsers(us, organization_id) ==
    {u \in DOMAIN us : us[u].organization_id = organization_id /\ us[u].is_organization_contact}

(* _pending_invitation_query *)
_pending_invitation_query(inv, organization_id, email, role) ==
    {r \in inv.rows : /\ r.organization_id = organization_id
                      /\ lower_str(r.email) = lower_str(email)
                      /\ r.role = role
                      /\ ~r.accepted}

(* create_contact_invitation, with the check of _create_invitation: "ok"   *)
(* or the kind of the refusal.                                             *)
create_contact_check(us, inv, organization_id, email) ==
    IF organization_id \notin Organizations THEN "not_found"
    ELSE IF ContactUsers(us, organization_id) # {} THEN "rejected"
    ELSE IF EmailTaken(us, _normalize_email(email)) THEN "rejected"
    ELSE "ok"

(* _create_invitation: the pending invitation of this organization, e-mail *)
(* and role gets a new token, or a new row is added.                       *)
_create_invitation(inv, organization_id, email, role) ==
    LET normalized_email == _normalize_email(email)
        pending == _pending_invitation_query(inv, organization_id, normalized_email, role)
    IN  IF pending = {}
        THEN [rows |-> inv.rows \cup {[id |-> inv.next_id,
                                       organization_id |-> organization_id,
                                       email |-> normalized_email,
                                       role |-> role,
                                       token |-> inv.uuid + 1,
                                       accepted |-> FALSE]},
              next_id |-> inv.next_id + 1,
              uuid |-> inv.uuid + 1]
        ELSE LET invitation == CHOOSE r \in pending : TRUE
             IN  [rows |-> (inv.rows \ {invitation})
                           \cup {[invitation EXCEPT !.token = inv.uuid + 1]},
                  next_id |-> inv.next_id,
                  uuid |-> inv.uuid + 1]

(* POST .../contact-invitations, by an administrator. *)
CreateContactInvitation(organization_id, email) ==
    /\ invitations.uuid < MaxInvitations
    /\ LET check == create_contact_check(users, invitations, organization_id, email)
       IN  IF check # "ok"
           THEN Failed("createContactInvitation", check)
           ELSE /\ invitations' = _create_invitation(invitations, organization_id, email, "contact")
                /\ Done("createContactInvitation", "ok")
                /\ UNCHANGED <<events, delegates, users, codes, nextEventId, now, tx,
                               organizations, sessions, request>>

(* create_member_invitation, called by the user invited_by. *)
create_member_check(us, organization_id, email, invited_by) ==
    IF ~us[invited_by].is_admin /\ us[invited_by].organization_id # organization_id
    THEN "forbidden"
    ELSE IF ~(us[invited_by].is_admin \/ us[invited_by].is_organization_contact)
    THEN "forbidden"
    ELSE IF organization_id \notin Organizations THEN "not_found"
    ELSE IF EmailTaken(us, _normalize_email(email)) THEN "rejected"
    ELSE "ok"

CreateMemberInvitation(organization_id, email, invited_by) ==
    /\ invitations.uuid < MaxInvitations
    /\ invited_by \in DOMAIN users
    /\ LET check == create_member_check(users, organization_id, email, invited_by)
       IN  IF check # "ok"
           THEN Failed("createMemberInvitation", check)
           ELSE /\ invitations' = _create_invitation(invitations, organization_id, email, "member")
                /\ Done("createMemberInvitation", "ok")
                /\ UNCHANGED <<events, delegates, users, codes, nextEventId, now, tx,
                               organizations, sessions, request>>

(* delete_contact_invitation *)
delete_contact_check(inv, organization_id, invitation_id) ==
    IF ~\E r \in inv.rows : r.id = invitation_id /\ r.organization_id = organization_id
    THEN "not_found"
    ELSE LET invitation == CHOOSE r \in inv.rows : r.id = invitation_id
         IN  IF invitation.role # "contact" THEN "rejected"
             ELSE IF invitation.accepted THEN "rejected"
             ELSE "ok"

DeleteContactInvitation(organization_id, invitation_id) ==
    LET check == delete_contact_check(invitations, organization_id, invitation_id)
    IN  IF check # "ok"
        THEN Failed("deleteContactInvitation", check)
        ELSE /\ invitations' = [invitations EXCEPT !.rows = {r \in @ : r.id # invitation_id}]
             /\ Done("deleteContactInvitation", "ok")
             /\ UNCHANGED <<events, delegates, users, codes, nextEventId, now, tx,
                            organizations, sessions, request>>

(* accept_invitation *)
accept_check(us, inv, token) ==
    IF ~\E r \in inv.rows : r.token = token /\ ~r.accepted THEN "not_found"
    ELSE LET invitation == CHOOSE r \in inv.rows : r.token = token
         IN  IF EmailTaken(us, _normalize_email(invitation.email)) THEN "rejected"
             ELSE IF invitation.role = "contact"
                     /\ ContactUsers(us, invitation.organization_id) # {}
             THEN "rejected"
             ELSE "ok"

InvitedUser(invitation) ==
    [organization_id |-> invitation.organization_id,
     is_admin |-> FALSE,
     is_email_verified |-> TRUE,
     admin_decision |-> "approved",
     is_voting_delegate |-> FALSE,
     is_organization_contact |-> (invitation.role = "contact"),
     email |-> _normalize_email(invitation.email)]

NextUserId(us) == 1 + Cardinality(DOMAIN us)

AcceptInvitation(token) ==
    LET check == accept_check(users, invitations, token)
    IN  IF check # "ok"
        THEN Failed("acceptInvitation", check)
        ELSE LET invitation == CHOOSE r \in invitations.rows : r.token = token
             IN  /\ users' = [u \in DOMAIN users \cup {NextUserId(users)} |->
                                 IF u \in DOMAIN users THEN users[u]
                                 ELSE InvitedUser(invitation)]
                 /\ invitations' = [invitations EXCEPT
                        !.rows = (@ \ {invitation}) \cup {[invitation EXCEPT !.accepted = TRUE]}]
                 /\ Done("acceptInvitation", "ok")
                 /\ UNCHANGED <<events, delegates, codes, nextEventId, now, tx,
                                organizations, sessions, request>>

(* The users at the start: the administrator and the members of the first  *)
(* organization, with their addresses.                                     *)
InitInvitations ==
    /\ events = <<>>
    /\ delegates = {}
    /\ users = [u \in UserIds |->
                   InitialUser(u) @@ [email |-> IF u = 1 THEN <<"r">> ELSE <<"b", "0">>]]
    /\ codes = {}
    /\ nextEventId = 1
    /\ now = 0
    /\ last = [op |-> "init", result |-> "ok"]
    /\ tx = [t \in Transactions |-> IdleTx]
    /\ InitHandoff

InvitationEmails == {<<"a">>, <<" ", "A">>, <<"b">>, <<"b", "0">>}

NextInvitations ==
    \/ \E o \in Organizations, email \in InvitationEmails : CreateContactInvitation(o, email)
    \/ \E o \in Organizations, email \in InvitationEmails, by \in 1..(NumUsers + MaxInvitations) :
          CreateMemberInvitation(o, email, by)
    \/ \E o \in Organizations, i \in 1..MaxInvitations : DeleteContactInvitation(o, i)
    \/ \E t \in 1..MaxInvitations : AcceptInvitation(t)

SpecInvitations == InitInvitations /\ [][NextInvitations]_vars

PendingContactInvitations(inv, organization_id) ==
    {r \in inv.rows : r.organization_id = organization_id /\ r.role = "contact" /\ ~r.accepted}

(* C32: each organization has at most one live contact: its contact users  *)
(* and its pending contact invitations together are at most one.           *)
C32_AtMostOneLiveContact ==
    \A o \in Organizations :
        Cardinality(ContactUsers(users, o))
            + Cardinality(PendingContactInvitations(invitations, o)) <= 1

(* The users alone: at most one contact of each organization. *)
C32_AtMostOneContactUser ==
    \A o \in Organizations : Cardinality(ContactUsers(users, o)) <= 1

----------------------------------------------------------------------------
(* Membership: members leave their organization or are deleted while they  *)
(* are delegates.  One user that is not an administrator may be the        *)
(* contact of its organization.                                            *)

InitMembership ==
    /\ events = <<>>
    /\ delegates = {}
    /\ \E contact \in {0} \cup (UserIds \ {1}) :
          users = [u \in UserIds |->
                      [InitialUser(u) EXCEPT !.is_organization_contact = (u = contact)]]
    /\ codes = {}
    /\ nextEventId = 1
    /\ now = 0
    /\ last = [op |-> "init", result |-> "ok"]
    /\ tx = [t \in Transactions |-> IdleTx]
    /\ InitHandoff

NextMembership ==
    \/ \E activate \in BOOLEAN :
          CreateEvent(3, Naive(4 * 3600), Naive(3 * 3600), 2, activate)
    \/ \E e \in EventIds, o \in Organizations, ids \in {<<>>, <<2>>, <<1, 2>>, <<NumUsers>>} :
          SetEventDelegates(e, o, ids)
    \/ \E o \in Organizations, m \in UserIdInputs : RemoveMember(o, m)
    \/ \E u \in UserIdInputs : DeleteUser(u)

SpecMembership == InitMembership /\ [][NextMembership]_vars

UserRows(dels, user_id) == {d \in dels : d.user_id = user_id}

(* C33: a removal from the organization that succeeds leaves the user      *)
(* without delegate row, without organization and with both flags false;   *)
(* a deletion that succeeds leaves no row of the user and no user; both in *)
(* one step; a refused call changes nothing.                               *)
C33_MemberLosesRowsAndFlags ==
    [][\A u \in DOMAIN users :
          /\ (/\ last'.op = "removeMember"
              /\ \E o \in Organizations : RemoveMember(o, u)
              => IF last'.result = "ok"
                 THEN /\ UserRows(delegates', u) = {}
                      /\ u \in DOMAIN users'
                      /\ users'[u].organization_id = 0
                      /\ ~users'[u].is_voting_delegate
                      /\ ~users'[u].is_organization_contact
                 ELSE Tables' = Tables)
          /\ (/\ last'.op = "deleteUser"
              /\ DeleteUser(u)
              => IF last'.result = "ok"
                 THEN UserRows(delegates', u) = {} /\ u \notin DOMAIN users'
                 ELSE Tables' = Tables)]_vars

(* A member that was a delegate of two events, one of them not active, has *)
(* been removed from the organization.                                     *)
C33_Witness ==
    /\ last = [op |-> "removeMember", result |-> "ok"]
    /\ Cardinality(DOMAIN events) = 2
    /\ \E u \in DOMAIN users : users[u].organization_id = 0 /\ UserRows(delegates, u) = {}
    /\ \E d \in delegates : d.event_id \notin ActiveEvents(events)

(* The removal of the contact of an organization was refused. *)
C33_WitnessRejected ==
    /\ last = [op |-> "removeMember", result |-> "rejected"]
    /\ \E u \in DOMAIN users : users[u].is_organization_contact /\ UserRows(delegates, u) # {}

(* C34: the created event is active exactly when activation was requested  *)
(* or no event was active; voting is enabled on it only when activation    *)
(* was requested; created without the request while another event is       *)
(* active, it is not active and every other event stays as it was.         *)
C34_CreateActivatesWhenAskedOrAlone ==
    [][\A activate \in BOOLEAN :
          /\ last'.op = "createEvent"
          /\ last'.result = "ok"
          /\ CreateEvent(3, Naive(4 * 3600), Naive(3 * 3600), 2, activate)
          => LET created == events'[nextEventId]
                 was_active == ActiveEvents(events) # {}
             IN  /\ DOMAIN events' = DOMAIN events \cup {nextEventId}
                 /\ created.is_active = (activate \/ ~was_active)
                 /\ created.is_voting_enabled = activate
                 /\ (~activate /\ was_active
                     => \A e \in DOMAIN events : events'[e] = events[e])]_vars

(* An event was created without the request for activation while no event  *)
(* existed: it is the active one and voting is not enabled on it.          *)
C34_Witness ==
    /\ last = [op |-> "createEvent", result |-> "ok"]
    /\ \E x \in DOMAIN events :
          /\ DOMAIN events = {x}
          /\ events[x].is_active
          /\ ~events[x].is_voting_enabled

(* An event was created without the request while another event is active  *)
(* with voting enabled.                                                    *)
C34_WitnessInactive ==
    /\ last = [op |-> "createEvent", result |-> "ok"]
    /\ \E x, y \in DOMAIN events :
          /\ x < y
          /\ events[x].is_active /\ events[x].is_voting_enabled
          /\ ~events[y].is_active

----------------------------------------------------------------------------
(* Voting is enabled on the active event while another event is activated, *)
(* in separate sessions.                                                   *)

(* set_voting_event_accessibility in the session: the row it loads and the *)
(* value it assigns; a refusal answers at once.                            *)
TxAccessibilityWrite(t, x, is_voting_enabled) ==
    /\ tx[t].pc = "idle"
    /\ x \in DOMAIN events
    /\ IF set_voting_event_accessibility(events[x], is_voting_enabled) # "ok"
       THEN Failed("setVotingEnabled", "rejected")
       ELSE /\ tx' = [tx EXCEPT ![t] =
                         [pc |-> "activated", op |-> "setVotingEnabled", inserted |-> {},
                          read_events |-> [e \in {x} |-> events[e]],
                          new_events |-> [e \in {x} |->
                                             [events[e] EXCEPT
                                                 !.is_voting_enabled = is_voting_enabled]],
                          read_users |-> <<>>,
                          new_users |-> <<>>]]
            /\ UNCHANGED <<events, delegates, users, codes, nextEventId, now, last,
                           organizations, sessions, returned, request, invitations>>

NextEnableRace ==
    \/ (\A t \in Transactions : tx[t].pc = "idle")
       /\ \E activate \in BOOLEAN :
             CreateEvent(3, Naive(4 * 3600), Naive(3 * 3600), 2, activate)
    \/ \E t \in Transactions, x \in EventIds : TxActivateRead(t, x)
    \/ \E t \in Transactions, x \in EventIds, en \in BOOLEAN : TxAccessibilityWrite(t, x, en)
    \/ \E t \in Transactions : TxCommit(t)

SpecEnableRace == Init /\ [][NextEnableRace]_vars

(* C35: when enabling voting on the active event and activating another    *)
(* event have both committed, no event has voting enabled without being    *)
(* active.                                                                 *)
C35_ConcurrentEnableStaysActive ==
    (\A t \in Transactions : tx[t].pc = "idle")
        => \A e \in DOMAIN events : events[e].is_voting_enabled => events[e].is_active

----------------------------------------------------------------------------
(* The roster of a locked event: the lock is set and lifted, the roster is *)
(* replaced, members are removed and users deleted, as time passes.        *)

NextLockedRoster ==
    \/ nextEventId = 1 /\ CreateEvent(3, Naive(4 * 3600), Naive(3600), 2, FALSE)
    \/ \E mode \in LockModes : SetDelegateLockOverride(1, mode)
    \/ \E ids \in {<<>>, <<2>>, <<1, 2>>} : SetEventDelegates(1, 1, ids)
    \/ \E m \in UserIds : RemoveMember(1, m)
    \/ \E u \in UserIds : DeleteUser(u)
    \/ now = 0 /\ Tick

SpecLockedRoster == Init /\ [][NextLockedRoster]_vars

RosterOps == {"setEventDelegates", "removeMember", "deleteUser"}

(* C36: while an event is locked, no roster replacement, member removal or *)
(* user deletion changes the set of its delegate rows.                     *)
C36_LockedRosterIsFrozen ==
    [][\A e \in DOMAIN events :
          last'.op \in RosterOps /\ delegate_lock_state(events[e], now).locked
          => EventDelegates(delegates', e) = EventDelegates(delegates, e)]_vars

(* C36 as amended: while an event is locked, no operation adds a delegate  *)
(* row to it and a roster replacement changes none of its rows; a member   *)
(* removal or user deletion that succeeds removes the rows of that user,   *)
(* and no other row, also from a locked event.                             *)
C36_LockedRosterOnlyLosesLeavers ==
    [][\A e \in DOMAIN events :
          last'.op \in RosterOps /\ delegate_lock_state(events[e], now).locked
          => LET before == EventDelegates(delegates, e)
                 after == EventDelegates(delegates', e)
             IN  /\ after \subseteq before
                 /\ last'.op = "setEventDelegates" => after = before
                 /\ after # before
                    => /\ last'.result = "ok"
                       /\ \E u \in DOMAIN users :
                             /\ before \ after = UserRows(before, u)
                             /\ u \in DOMAIN users' => users'[u].organization_id = 0]_vars

(* A member has been removed while the active event is locked; the event   *)
(* keeps the row of another delegate.                                      *)
C36_Witness ==
    /\ last = [op |-> "removeMember", result |-> "ok"]
    /\ \E e \in DOMAIN events :
          /\ delegate_lock_state(events[e], now).locked
          /\ events[e].is_active
          /\ EventDelegates(delegates, e) # {}
          /\ \E u \in DOMAIN users :
                users[u].organization_id = 0 /\ UserRows(delegates, u) = {}

(* C37: after any sequence of completed event requests, if an event exists *)
(* then exactly one event is active.                                       *)
C37_ExactlyOneActive ==
    DOMAIN events # {} => Cardinality(ActiveEvents(events)) = 1

(* An event that is not active has been deleted; of the events left, the   *)
(* one that was created later and activated is the active one.             *)
C37_Witness ==
    /\ last = [op |-> "deleteEvent", result |-> "ok"]
    /\ \E x \in DOMAIN events : x > 1 /\ ActiveEvents(events) = {x}

----------------------------------------------------------------------------
(* Registration decisions next to roster replacements, member removals and *)
(* account deletions, over users of every standing.                        *)

(* A decision that overwrites whatever was decided before. *)
decide_registration_again(user, approve) == IF approve THEN [user EXCEPT !.admin_decision = "approved", !.is_email_verified = TRUE] ELSE [user EXCEPT !.admin_decision = "denied"]

(* decide_registration: the user row it leaves; a user whose decision is   *)
(* no longer pending is returned as stored.                                *)
decide_registration(user, approve) ==
    IF user.admin_decision # "pending"
    THEN user
    ELSE IF approve
    THEN [user EXCEPT !.admin_decision = "approved", !.is_email_verified = TRUE]
    ELSE [user EXCEPT !.admin_decision = "denied"]

DecideRegistration(user_id, approve) ==
    IF user_id \notin DOMAIN users
    THEN Failed("decideRegistration", "not_found")
    ELSE /\ users' = [users EXCEPT ![user_id] = decide_registration(@, approve)]
         /\ Done("decideRegistration", "ok")
         /\ UNCHANGED <<events, delegates, codes, nextEventId, now, tx, organizations, sessions, request, invitations>>

NextRegistration ==
    \/ nextEventId = 1 /\ CreateEvent(3, Naive(4 * 3600), Naive(3 * 3600), 2, FALSE)
    \/ \E o \in Organizations, ids \in {<<>>, <<2>>, <<1, 2>>, <<NumUsers>>} :
          SetEventDelegates(1, o, ids)
    \/ \E o \in Organizations, m \in UserIdInputs : RemoveMember(o, m)
    \/ \E u \in UserIdInputs : DeleteUser(u)
    \/ \E u \in UserIdInputs, approve \in BOOLEAN : DecideRegistration(u, approve)

SpecRegistration == InitRoster /\ [][NextRegistration]_vars

(* C38: the user of every delegate row is a member of the row's            *)
(* organization, is email-verified and has been approved.                  *)
C38_DelegatesAreApprovedMembers ==
    \A d \in delegates :
        /\ d.user_id \in DOMAIN users
        /\ users[d.user_id].organization_id = d.organization_id
        /\ users[d.user_id].is_email_verified
        /\ users[d.user_id].admin_decision = "approved"

(* A registration decision has just been taken while a roster holds rows   *)
(* and a registration stands denied.                                       *)
C38_Witness ==
    /\ last = [op |-> "decideRegistration", result |-> "ok"]
    /\ delegates # {}
    /\ \E u \in DOMAIN users : users[u].admin_decision = "denied"

(* A user approved by a decision has been put on a roster, and a member    *)
(* has left the organization.                                              *)
C38_WitnessRemoval ==
    /\ last = [op |-> "removeMember", result |-> "ok"]
    /\ delegates # {}

----------------------------------------------------------------------------
(* Redeemed codes and the accounts that redeemed them: the roster of       *)
(* organization 1 on the first event, its codes, their redemption by any   *)
(* user, and the deletion of accounts.                                     *)

NextRedeemed ==
    \/ nextEventId = 1 /\ CreateEvent(3, Naive(4 * 3600), Naive(3 * 3600), 2, FALSE)
    \/ \E ids \in {<<2>>, <<1, 2>>} : SetEventDelegates(1, 1, ids)
    \/ \E regenerate \in BOOLEAN : GenerateAccessCodes(1, regenerate)
    \/ \E raw \in CodeInputs, u \in UserIds : RedeemAccessCode(1, raw, u)
    \/ \E u \in UserIds : DeleteUser(u)
    \/ ResetAllEvents

SpecRedeemed == Init /\ [][NextRedeemed]_vars

(* Whether the code row is kept by the step, with its used_at. *)
StaysUsed(c) ==
    \E d \in codes' : /\ d.event_id = c.event_id
                      /\ d.code = c.code
                      /\ d.used_at = c.used_at

(* C39: a redeemed code keeps its used_at unless a regenerating generation *)
(* of its event deletes it; the deletion of the account that redeemed it   *)
(* clears used_by_user and keeps used_at, and while a code is used its     *)
(* redemption fails as already used.                                       *)
C39_RedeemedStaysUsed ==
    [][/\ \A c \in codes :
             ~c.used_at.null =>
                 \/ StaysUsed(c)
                 \/ /\ last'.op = "generateAccessCodes"
                    /\ GenerateAccessCodes(c.event_id, TRUE)
       /\ \A u \in UserIds :
             (/\ last'.op = "deleteUser"
              /\ last'.result = "ok"
              /\ DeleteUser(u)) =>
                 \A c \in codes :
                     c.used_by_user_id = u =>
                         [c EXCEPT !.used_by_user_id = 0] \in codes'
       /\ \A c \in codes' :
             ~c.used_at.null =>
                 redeem_voting_access_code(codes', c.event_id, c.code) = "already_used"]_vars

(* The account that redeemed the only code has been deleted, and a later   *)
(* redemption of the code has failed as already used.                      *)
C39_Witness ==
    /\ last = [op |-> "redeemAccessCode", result |-> "already_used"]
    /\ Cardinality(codes) = 1
    /\ \A c \in codes : ~c.used_at.null /\ c.used_by_user_id = 0
    /\ 2 \notin DOMAIN users

----------------------------------------------------------------------------
(* The inbound authentication endpoint of the voting service.  The address *)
(* of the payload selects the user user_id (none for an id that is not     *)
(* stored), and the password of the payload is the password tried.         *)

(* The gate without its look at is_voting_enabled. *)
voting_access_check_active_only(evs, user, active_event) == IF active_event = 0 /\ ~user.is_admin THEN "no_active_event" ELSE "ok"

(* authenticate_for_voting, the two refusals after authenticate_user. *)
voting_access_check(evs, user, active_event) ==
    IF active_event = 0 /\ ~user.is_admin THEN "no_active_event"
    ELSE IF active_event # 0 /\ ~evs[active_event].is_voting_enabled /\ ~user.is_admin
    THEN "not_enabled"
    ELSE "ok"

(* is_delegate of authenticate_for_voting: a row of the user among the     *)
(* rows of the user's organization on the active event.                    *)
is_delegate(dels, user_id, organization_id, active_event) ==
    /\ active_event # 0
    /\ organization_id # 0
    /\ \E d \in existing_rows(dels, active_event, organization_id) : d.user_id = user_id

VotingAuthResponse(user_id, user, active_event, is_event_delegate) ==
    [kind |-> "voting_auth",
     user_id |-> user_id,
     is_admin |-> user.is_admin,
     organization_id |-> user.organization_id,
     active_event |-> active_event,
     is_event_delegate |-> is_event_delegate]

AuthenticateForVoting(payload, user_id, password) ==
    LET validation == _validate_voting_auth_request(payload, now)
        credentials == authenticate_user(users, user_id, password)
    IN  /\ IF validation # "ok"
           THEN Done("authenticateForVoting", validation)
           ELSE IF credentials # "ok"
           THEN Done("authenticateForVoting", credentials)
           ELSE \E active_event \in get_active_voting_event(events) :
                   LET user == users[user_id]
                       access == voting_access_check(events, user, active_event)
                   IN  IF access # "ok"
                       THEN Done("authenticateForVoting", access)
                       ELSE DoneReturning(
                                "authenticateForVoting", "ok",
                                VotingAuthResponse(
                                    user_id, user, active_event,
                                    is_delegate(delegates, user_id, user.organization_id,
                                                active_event) \/ user.is_admin))
        /\ UNCHANGED <<events, delegates, users, codes, nextEventId, now, tx,
                       organizations, sessions, request, invitations>>

(* The payloads of one caller: signed under the secret or under another    *)
(* key, inside the window or one second before it.                         *)
VotingAuthPayloads ==
    {[timestamp |-> timestamp,
      email |-> <<"a", "@", "x">>,
      password |-> "p",
      signature |-> [digest |-> hmac(key, <<timestamp, <<"a", "@", "x">>, "p">>),
                     text |-> "lower"]] :
        timestamp \in {0 - (VOTING_AUTH_TTL_SECONDS + 1), VOTING_AUTH_TTL_SECONDS},
        key \in {VOTING_O2AUTH_SECRET, "another-secret"}}

(* The administrator as seeded; the last user of any standing; every user  *)
(* with the first password.                                                *)
InitVotingAuth ==
    /\ events = <<>>
    /\ delegates = {}
    /\ \E standing \in UserStandings :
          users = [u \in UserIds |->
                      (IF u < NumUsers THEN InitialUser(u) ELSE StoredUser(u, standing))
                          @@ [password_hash |-> hash_password(Password("first", 8, TRUE, TRUE))]]
    /\ codes = {}
    /\ nextEventId = 1
    /\ now = 0
    /\ last = [op |-> "init", result |-> "ok"]
    /\ tx = [t \in Transactions |-> IdleTx]
    /\ InitHandoff

NextVotingAuth ==
    \/ \E activate \in BOOLEAN :
          CreateEvent(3, Naive(4 * 3600), Naive(3 * 3600), 2, activate)
    \/ \E e \in EventIds : ActivateEvent(e)
    \/ \E e \in EventIds, enabled \in BOOLEAN : SetVotingEnabled(e, enabled)
    \/ \E e \in EventIds, o \in Organizations, ids \in {<<>>, <<2>>, <<NumUsers>>} :
          SetEventDelegates(e, o, ids)
    \/ \E payload \in VotingAuthPayloads, u \in UserIdInputs,
          p \in {Password("first", 8, TRUE, TRUE), Password("second", 9, TRUE, TRUE)} :
          AuthenticateForVoting(payload, u, p)

SpecVotingAuth == InitVotingAuth /\ [][NextVotingAuth]_vars

(* C40: a caller is admitted only with a fresh, genuine payload and valid  *)
(* credentials; a caller who is not an administrator only while an active  *)
(* event exists and has voting enabled; an administrator with such a       *)
(* payload and credentials always; and is_event_delegate is reported true  *)
(* exactly for an administrator or a caller with a delegate row of the     *)
(* caller's organization on the active event.                              *)
C40_VotingAuthGate ==
    [][\A payload \in VotingAuthPayloads, u \in UserIdInputs,
          p \in {Password("first", 8, TRUE, TRUE), Password("second", 9, TRUE, TRUE)} :
          (/\ last'.op = "authenticateForVoting"
           /\ AuthenticateForVoting(payload, u, p)) =>
              LET admitted == last'.result = "ok"
                  entitled == /\ Fresh(payload)
                              /\ Genuine(payload)
                              /\ authenticate_user(users, u, p) = "ok"
              IN  /\ admitted => entitled
                  /\ (admitted /\ ~users[u].is_admin) =>
                        \E e \in ActiveEvents(events) : events[e].is_voting_enabled
                  /\ (entitled /\ users[u].is_admin) => admitted
                  /\ admitted =>
                        (returned'.is_event_delegate <=>
                            \/ users[u].is_admin
                            \/ \E d \in delegates :
                                  /\ d.user_id = u
                                  /\ d.organization_id = users[u].organization_id
                                  /\ d.event_id \in ActiveEvents(events))]_vars

(* A delegate of the active, enabled event has been admitted and reported  *)
(* as delegate.                                                            *)
C40_Witness ==
    /\ last = [op |-> "authenticateForVoting", result |-> "ok"]
    /\ returned.kind = "voting_auth"
    /\ ~returned.is_admin
    /\ returned.is_event_delegate
    /\ events[returned.active_event].is_voting_enabled

(* The administrator has been admitted while no event exists. *)
C40_WitnessAdmin ==
    /\ last = [op |-> "authenticateForVoting", result |-> "ok"]
    /\ returned.kind = "voting_auth"
    /\ returned.is_admin
    /\ returned.active_event = 0

(* A member who is not a delegate of the active event has been admitted    *)
(* and reported as no delegate.                                            *)
C40_WitnessNoDelegate ==
    /\ last = [op |-> "authenticateForVoting", result |-> "ok"]
    /\ returned.kind = "voting_auth"
    /\ ~returned.is_event_delegate
    /\ delegates # {}

====
